---- MODULE Spec2Model ----
(***************************************************************************)
(* A model of the procedural-population director (AIManager) of the game   *)
(* and of the Game handlers that drive it.                                 *)
(*                                                                         *)
(* Time is Date.now() in milliseconds since the director was constructed.  *)
(* A world position is <<x, z>> (y is always 0).  A predictor output is    *)
(* kept in tenths: <<7, 24>> stands for the tensor data [0.7, 2.4].        *)
(* mapDensity is kept in 200ths (Game.calculateMapDensity divides the      *)
(* building count by 200).                                                 *)
(***************************************************************************)
EXTENDS Integers, Sequences, FiniteSets, TLC

VARIABLES
  now,            \* Date.now()
  pruneDue,       \* time at which the setInterval of startPerformanceMonitoring is due
  enemyModel,     \* TRUE iff this.enemyModel is not null
  structureModel, \* TRUE iff this.structureModel is not null
  modelCache,     \* this.modelCache, in Map insertion order
  metrics,        \* this.metrics
  enemies,        \* this.enemies
  structures,     \* this.structures
  scene,          \* handles of the objects that are children of the scene
  nextHandle,     \* next fresh object handle (identity of a cloned instance)
  timers,         \* live zigzag setInterval timers
  currentTask,    \* this.currentTask
  nextTaskId,     \* this.nextTaskId
  game,           \* the Game's score, level and player position
  pending,        \* async calls suspended at `await prediction.data()`
  errors,         \* number of ErrorManager.handleError reports
  calls,          \* number of handler invocations so far
  last,           \* observation of the step taken last
  lastInference,  \* history: per cache key, time of its latest inference
  evictedKeys,    \* history: keys whose entry was dropped for capacity
  loader,         \* position of loadModels and what it has invoked so far
  client,         \* what a caller of getEnemies / getMetrics holds
  history,        \* history: ids of the tasks generated, when dispose was called
  menuManager,    \* the MenuManager: this.menus, this.activeMenu, where initializeMenus is
  modelsLoader    \* the loadModelWithRetry call of the ModelsLoader

vars == <<now, pruneDue, enemyModel, structureModel, modelCache, metrics,
          enemies, structures, scene, nextHandle, timers, currentTask,
          nextTaskId, game, pending, errors, calls, last, lastInference,
          evictedKeys, loader, client, history, menuManager, modelsLoader>>

(***************************************************************************)
(* Program constants                                                       *)
(***************************************************************************)
CACHE_TTL == 5000
MAX_CACHE_SIZE == 100
MAX_ENEMIES == 50
PRUNE_INTERVAL == 5000
MAX_ATTEMPTS == 10
MIN_DISTANCE == 20
BOUNDS == 250

FallbackPosition == <<0, 0 - 200>>

\* ids of the character catalog (modelsLoader.getAllCharacterData().map(c => c.id))
CharacterIds == <<"char_a", "char_b", "char_c">>

\* ids for which modelsLoader.getModel returns a model
LoadedModels == {"char_a", "char_b", "building-type-a", "building-type-b",
                 "detail-parasol"}

(***************************************************************************)
(* Bounds of the exploration                                               *)
(***************************************************************************)
MaxTime == 5001
MaxClock == 10001
MaxCalls == 3
MaxPending == 1

\* the instants the clock visits: the ones around a multiple of the TTL
Instants == {t \in 0..MaxClock : t % CACHE_TTL \in {0, 1, CACHE_TTL - 1}}

None == 0 - 1

(***************************************************************************)
(* Helpers                                                                 *)
(***************************************************************************)
Min(a, b) == IF a < b THEN a ELSE b
Max(a, b) == IF a > b THEN a ELSE b

\* a variant of the rounding that truncates
Round10_floor(x) == x \div 10

\* Math.round on a value given in tenths
Round10(x) == (x + 5) \div 10

\* the k-th number of a pseudo-random stream (a finite sequence read cyclically)
Draw(stream, k) == stream[((k - 1) % Len(stream)) + 1]

\* squared THREE.Vector3.distanceTo of two positions with y = 0
DistSq(p, q) == (p[1] - q[1]) * (p[1] - q[1]) + (p[2] - q[2]) * (p[2] - q[2])

\* position.distanceTo(other) < d, for an integer d
CloserThan(p, q, d) == DistSq(p, q) < d * d

(***************************************************************************)
(* The inference cache (a JavaScript Map)                                  *)
(***************************************************************************)
CacheKey(level, enemyCount, mapDensity) == <<level, enemyCount, mapDensity>>

\* index of the entry of a key, 0 when the Map has no such key
CacheIndex(cache, key) ==
  IF \E i \in DOMAIN cache : cache[i].key = key
  THEN CHOOSE i \in DOMAIN cache : cache[i].key = key
  ELSE 0

\* Map.set: an existing key keeps its place in the iteration order
MapSet(cache, entry) ==
  LET i == CacheIndex(cache, entry.key)
  IN IF i = 0 THEN Append(cache, entry) ELSE [cache EXCEPT ![i] = entry]

\* Map.delete
MapDelete(cache, key) == SelectSeq(cache, LAMBDA e : e.key # key)

\* a variant of the serving test that also serves at age exactly CACHE_TTL
IsLive_le(entry, t) == (t - entry.timestamp) <= CACHE_TTL

\* the test of spawnEnemy that lets a cached prediction be served
IsLive(entry, t) == (t - entry.timestamp) < CACHE_TTL

\* a variant of the prune test that deletes the entries younger than CACHE_TTL
IsStale_reversed(entry, t) == (t - entry.timestamp) < CACHE_TTL

\* the test of the prune pass that deletes a cache entry
IsStale(entry, t) == (t - entry.timestamp) > CACHE_TTL

\* Array.from(this.modelCache.keys())[0]
OldestKey(cache) == cache[1].key

\* a variant of the capacity eviction that drops the newest entry
EvictOverflow_newest(cache) ==
  IF Len(cache) > MAX_CACHE_SIZE THEN MapDelete(cache, cache[Len(cache)].key) ELSE cache

\* the capacity eviction that follows an insertion
EvictOverflow(cache) ==
  IF Len(cache) > MAX_CACHE_SIZE THEN MapDelete(cache, OldestKey(cache)) ELSE cache

Overflows(cache) == Len(cache) > MAX_CACHE_SIZE

\* The tensors the entries of a cache hold.  A tensor is named by a number:
\* the count of the handler call whose inference made it (below 0 for the
\* tensors that are in the cache at the start).
TensorsOf(cache) == {cache[i].tensor : i \in DOMAIN cache}

(***************************************************************************)
(* The spawn safety planner                                                *)
(***************************************************************************)
\* a variant of isPositionSafe that ignores the structures
IsPositionSafe_enemiesOnly(position, es, ss) ==
  \A i \in DOMAIN es : ~CloserThan(position, es[i].pos, MIN_DISTANCE)

\* a variant of isPositionSafe that also keeps the distance from the player
IsPositionSafe_playerToo(position, es, ss) ==
  /\ ~CloserThan(position, game.player, MIN_DISTANCE)
  /\ \A i \in DOMAIN es : ~CloserThan(position, es[i].pos, MIN_DISTANCE)
  /\ \A i \in DOMAIN ss : ~CloserThan(position, ss[i].pos, MIN_DISTANCE)

\* isPositionSafe: no live enemy and no structure closer than minDistance
IsPositionSafe(position, es, ss) ==
  /\ \A i \in DOMAIN es : ~CloserThan(position, es[i].pos, MIN_DISTANCE)
  /\ \A i \in DOMAIN ss : ~CloserThan(position, ss[i].pos, MIN_DISTANCE)

\* a variant of the loop condition that allows one more attempt
AttemptsLeft_offByOne(attempts) == attempts <= MAX_ATTEMPTS

\* the loop condition of findSafeSpawnPosition
AttemptsLeft(attempts) == attempts < MAX_ATTEMPTS

\* the while loop of findSafeSpawnPosition from its `attempts`-th iteration on;
\* pts is the stream of sampled points and k the index of the next one.
\* draws is the number of points sampled, sampled tells an accepted sample
\* from the fallback.
RECURSIVE FindSafeFrom(_, _, _, _, _)
FindSafeFrom(es, ss, pts, k, attempts) ==
  IF AttemptsLeft(attempts)
  THEN LET position == Draw(pts, k)
       IN IF IsPositionSafe(position, es, ss)
          THEN [pos |-> position, sampled |-> TRUE, draws |-> attempts + 1]
          ELSE FindSafeFrom(es, ss, pts, k + 1, attempts + 1)
  ELSE [pos |-> FallbackPosition, sampled |-> FALSE, draws |-> attempts]

FindSafeSpawnPosition(es, ss, pts, k) == FindSafeFrom(es, ss, pts, k, 0)

\* keepInBounds, on one coordinate
Clamp(v) == Max(0 - BOUNDS, Min(BOUNDS, v))

(***************************************************************************)
(* spawnEnemy                                                              *)
(***************************************************************************)
\* a variant of the guard that lets a call through at exactly MAX_ENEMIES
SpawnRefused_gt(es) == ~enemyModel \/ Len(es) > MAX_ENEMIES

\* the guard at the head of spawnEnemy
SpawnRefused(es) == ~enemyModel \/ Len(es) >= MAX_ENEMIES

\* a variant of the spawn loop without its cap check
LoopAtCap_never(es) == FALSE

\* the cap check at the head of every iteration of the spawn loop
LoopAtCap(es) == Len(es) >= MAX_ENEMIES

\* a variant of the catalog in which every lookup finds a model
HasModel_any(id) == TRUE

\* modelsLoader.getModel(id) returns a model
HasModel(id) == id \in LoadedModels

\* the Enemy object built in the spawn loop
NewEnemy(id, i, level, enemyType, position, handle) ==
  [id |-> <<id, now, i>>,
   model |-> handle,
   pos |-> position,
   health |-> level * 50,
   speed |-> IF enemyType > 5 THEN 80 ELSE 50,
   damage |-> IF enemyType > 5 THEN 15 ELSE 20,
   type |-> IF enemyType > 5 THEN "fast" ELSE "basic",
   lastUpdate |-> now]

\* baseInterval / level, in whole milliseconds
ZigzagInterval(level) == 1000 \div level

\* the timer applyZigzagMovement starts for a fast enemy
\* (owner is the model of the enemy it was started for, due the time of its
\* next tick, ticks the number of ticks that moved an enemy, applied the
\* offset of the latest of them)
NewTimer(enemy, level) ==
  [id |-> enemy.id, direction |-> 1, level |-> level, owner |-> enemy.model,
   due |-> now + ZigzagInterval(level), ticks |-> 0, applied |-> 0]

\* The body of the spawn loop once the position is found: build the enemy,
\* start its zigzag timer when it is fast, push it and add it to the scene.
\* created records what the planner did for it.
PushEnemy(st, id, i, inp, found) ==
  [st EXCEPT !.enemies = Append(@, NewEnemy(id, i, inp.level, inp.enemyType,
                                            found.pos, st.nextHandle)),
             !.scene = @ \cup {st.nextHandle},
             !.nextHandle = @ + 1,
             !.timers = IF inp.enemyType > 5
                        THEN @ \cup {NewTimer([id |-> <<id, now, i>>,
                                                 model |-> st.nextHandle], inp.level)}
                        ELSE @,
             !.k = @ + found.draws,
             !.created = Append(@, [index |-> Len(st.enemies) + 1,
                                    sampled |-> found.sampled,
                                    draws |-> found.draws])]

\* The for loop of spawnEnemy from iteration i on.
\* st: the director state the loop works on (enemies, scene, nextHandle,
\*     timers), k the index of the next sampled point, created the planner
\*     results of the enemies pushed so far, missed the number of iterations
\*     that found no model and went on, failed whether a step threw.
\* inp: level, enemyType, n = Math.round(spawnCount), ids (the stream of
\*     catalog indices Math.random picks), pts (the stream of sampled points)
\*     and failAt, the iteration whose clone() throws (None: none does).
RECURSIVE SpawnLoop(_, _, _)
SpawnLoop(st, i, inp) ==
  IF i >= inp.n \/ LoopAtCap(st.enemies)
  THEN st
  ELSE LET id == CharacterIds[Draw(inp.ids, i + 1)]
       IN IF ~HasModel(id)
          THEN SpawnLoop([st EXCEPT !.missed = @ + 1], i + 1, inp)
          ELSE IF inp.failAt = i
          THEN [st EXCEPT !.failed = TRUE]
          ELSE SpawnLoop(
                 PushEnemy(st, id, i, inp,
                           FindSafeSpawnPosition(st.enemies, structures, inp.pts, st.k)),
                 i + 1, inp)

\* the time of the latest inference for a signature, None when there was none
InferredAt(key) ==
  IF key \in DOMAIN lastInference THEN lastInference[key] ELSE None

\* this.currentTask = null
NoTask == [id |-> 0, target |-> 0, progress |-> 0, reward |-> 0, completedAt |-> None]

\* the observation of a step: what the step was and what it did
NoObs ==
  [op |-> "init", outcome |-> "none", key |-> <<>>, age |-> None,
   prevInference |-> None, wasEvicted |-> FALSE, evictedTs |-> None,
   created |-> <<>>, inFlight |-> 0, level |-> 0, n |-> 0,
   hitsBefore |-> 0, missesBefore |-> 0, errorsBefore |-> 0,
   enemiesBefore |-> 0, structuresBefore |-> 0, missed |-> 0,
   prediction |-> <<>>, index |-> None, position |-> <<>>, after |-> "none",
   handle |-> None, health |-> None, removed |-> 0, prevRemoved |-> 0,
   cacheBefore |-> 0, taskBefore |-> NoTask, increment |-> FALSE,
   offset |-> 0, prevOffset |-> 0, elapsed |-> 0, ownerLive |-> FALSE]

\* spawnEnemy up to its `await prediction.data()`.
\* out is the output of the predictor should it be run, predictFails whether
\* enemyModel.predict throws.
SpawnEnemy(level, enemyCount, mapDensity, out, predictFails) ==
  /\ calls' = calls + 1
  /\ UNCHANGED <<menuManager, modelsLoader, client, loader, now, pruneDue, enemyModel, structureModel, enemies, structures,
                 scene, nextHandle, timers, currentTask, nextTaskId, game>>
  /\ LET cacheKey == CacheKey(level, enemyCount, mapDensity)
         idx == CacheIndex(modelCache, cacheKey)
         obs == [NoObs EXCEPT !.op = "spawnEnemy", !.key = cacheKey, !.level = level,
                              !.age = IF idx = 0 THEN None ELSE now - modelCache[idx].timestamp,
                              !.prevInference = InferredAt(cacheKey),
                              !.wasEvicted = cacheKey \in evictedKeys,
                              !.inFlight = Len(pending),
                              !.cacheBefore = Len(modelCache),
                              !.hitsBefore = metrics.cacheHits,
                              !.missesBefore = metrics.cacheMisses,
                              !.errorsBefore = errors,
                              !.enemiesBefore = Len(enemies),
                              !.structuresBefore = Len(structures)]
     IN IF SpawnRefused(enemies)
        THEN /\ last' = [obs EXCEPT !.outcome = "skipped"]
             /\ UNCHANGED <<modelCache, metrics, pending, errors, lastInference, evictedKeys,
                            history>>
        ELSE IF idx # 0 /\ IsLive(modelCache[idx], now)
        THEN /\ metrics' = [metrics EXCEPT !.cacheHits = @ + 1]
             /\ pending' = Append(pending, [op |-> "spawnEnemy", level |-> level,
                                            prediction |-> modelCache[idx].prediction,
                                            tensor |-> modelCache[idx].tensor])
             /\ last' = [obs EXCEPT !.outcome = "hit"]
             /\ UNCHANGED <<modelCache, errors, lastInference, evictedKeys, history>>
        ELSE IF predictFails
        THEN /\ errors' = errors + 1
             /\ last' = [obs EXCEPT !.outcome = "error"]
             /\ UNCHANGED <<modelCache, metrics, pending, lastInference, evictedKeys,
                            history>>
        ELSE LET inserted == MapSet(modelCache, [key |-> cacheKey, prediction |-> out,
                                                 timestamp |-> now, tensor |-> calls + 1])
             IN /\ modelCache' = EvictOverflow(inserted)
                /\ history' = [history EXCEPT
                                 !.released = @ \cup (TensorsOf(inserted)
                                                       \ TensorsOf(modelCache'))]
                /\ metrics' = [metrics EXCEPT !.cacheMisses = @ + 1]
                /\ pending' = Append(pending, [op |-> "spawnEnemy", level |-> level,
                                               prediction |-> out, tensor |-> calls + 1])
                /\ lastInference' = (cacheKey :> now) @@ lastInference
                /\ evictedKeys' = IF Overflows(inserted)
                                  THEN (evictedKeys \ {cacheKey}) \cup {OldestKey(inserted)}
                                  ELSE evictedKeys \ {cacheKey}
                /\ last' = [obs EXCEPT !.outcome = "miss",
                                       !.evictedTs =
                                          IF Overflows(inserted)
                                          THEN inserted[CacheIndex(inserted, OldestKey(inserted))].timestamp
                                          ELSE None]
                /\ UNCHANGED errors

\* the running average of updateMetrics is not modelled, only its counter
UpdateMetrics(m) == [m EXCEPT !.predictions = @ + 1]

\* spawnEnemy from the resumption of `await prediction.data()` to its end.
\* p is the suspended call, dataFails whether the awaited promise rejects.
SpawnEnemyResume(p, dataFails, ids, pts, failAt) ==
  /\ p \in DOMAIN pending
  /\ pending[p].op = "spawnEnemy"
  /\ calls' = calls + 1
  /\ pending' = [j \in 1..(Len(pending) - 1) |-> IF j < p THEN pending[j] ELSE pending[j + 1]]
  /\ UNCHANGED <<menuManager, modelsLoader, client, history, loader, now, pruneDue, enemyModel, structureModel, modelCache, structures,
                 currentTask, nextTaskId, game, lastInference, evictedKeys>>
  /\ LET call == pending[p]
         obs == [NoObs EXCEPT !.op = "spawnEnemyResume", !.level = call.level,
                              !.prediction = call.prediction,
                              !.position = Draw(pts, 1),
                              !.n = Round10(call.prediction[2]),
                              !.inFlight = Len(pending) - 1,
                              !.hitsBefore = metrics.cacheHits,
                              !.missesBefore = metrics.cacheMisses,
                              !.errorsBefore = errors,
                              !.enemiesBefore = Len(enemies),
                              !.structuresBefore = Len(structures)]
         inp == [level |-> call.level, enemyType |-> call.prediction[1],
                 n |-> Round10(call.prediction[2]), ids |-> ids, pts |-> pts,
                 failAt |-> failAt]
         st0 == [enemies |-> enemies, scene |-> scene, nextHandle |-> nextHandle,
                 timers |-> timers, k |-> 1, created |-> <<>>, missed |-> 0,
                 failed |-> FALSE]
     IN IF dataFails
        THEN /\ errors' = errors + 1
             /\ last' = [obs EXCEPT !.outcome = "error"]
             /\ UNCHANGED <<metrics, enemies, scene, nextHandle, timers>>
        ELSE \E st \in {SpawnLoop(st0, 0, inp)} :
                 /\ enemies' = st.enemies
                 /\ scene' = st.scene
                 /\ nextHandle' = st.nextHandle
                 /\ timers' = st.timers
                 /\ errors' = IF st.failed THEN errors + 1 ELSE errors
                 /\ metrics' = IF st.failed THEN metrics ELSE UpdateMetrics(metrics)
                 /\ last' = [obs EXCEPT !.outcome = IF st.failed THEN "error" ELSE "done",
                                        !.created = st.created,
                                        !.missed = st.missed]

(***************************************************************************)
(* addStructure                                                            *)
(* A structure predictor output is kept in hundredths: <<66, 50, 50>>      *)
(* stands for the tensor data [0.66, 0.5, 0.5].                            *)
(***************************************************************************)
BuildingIds == <<"building-type-a", "building-type-b", "building-type-c", "building-type-d">>

\* the ids of cityData.buildings
CityBuildings == {"building-type-a", "building-type-b", "building-type-c"}

\* building.size of an entry of cityData.buildings
BuildingSize(id) ==
  CASE id = "building-type-a" -> [width |-> 2, depth |-> 2]
    [] id = "building-type-b" -> [width |-> 3, depth |-> 4]
    [] OTHER -> [width |-> 5, depth |-> 5]

\* a variant of the catalog index that truncates
BuildingIndex_floor(b) == ((b * (Len(BuildingIds) - 1)) \div 100) + 1

\* Math.round(buildingIdx * (buildingIds.length - 1)), as an index from 1
BuildingIndex(b) == ((b * (Len(BuildingIds) - 1) + 50) \div 100) + 1

\* (norm * 100 - 50) * 5
Denormalize(norm) == (norm - 50) * 5

\* a variant of checkCollision that accepts every position
CheckCollision_none(position, size, ss) == TRUE

\* checkCollision: TRUE when no structure is closer than the footprint allows
CheckCollision(position, size, ss) ==
  LET minDistance == Max(size.width, size.depth) * 3 + 10
  IN \A i \in DOMAIN ss : ~CloserThan(position, ss[i].pos, minDistance)

\* addStructure up to its `await prediction.data()`.
\* out is the output of the predictor, predictFails whether predict throws.
AddStructure(level, buildingCount, region, out, predictFails) ==
  /\ calls' = calls + 1
  /\ UNCHANGED <<menuManager, modelsLoader, client, history, loader, now, pruneDue, enemyModel, structureModel, modelCache, metrics,
                 enemies, structures, scene, nextHandle, timers, currentTask,
                 nextTaskId, game, lastInference, evictedKeys>>
  /\ LET obs == [NoObs EXCEPT !.op = "addStructure", !.level = level,
                              !.inFlight = Len(pending),
                              !.errorsBefore = errors,
                              !.enemiesBefore = Len(enemies),
                              !.structuresBefore = Len(structures)]
     IN IF ~structureModel
        THEN /\ last' = [obs EXCEPT !.outcome = "skipped"]
             /\ UNCHANGED <<pending, errors>>
        ELSE IF predictFails
        THEN /\ errors' = errors + 1
             /\ last' = [obs EXCEPT !.outcome = "error"]
             /\ UNCHANGED pending
        ELSE /\ pending' = Append(pending, [op |-> "addStructure", level |-> level,
                                            tensor |-> None,
                                            prediction |-> out])
             /\ last' = [obs EXCEPT !.outcome = "awaiting"]
             /\ UNCHANGED errors

\* addStructure from the resumption of `await prediction.data()` to its end.
\* p is the suspended call, dataFails whether the awaited promise rejects,
\* cloneFails whether model.scene.clone() throws.
AddStructureResume(p, dataFails, cloneFails) ==
  /\ p \in DOMAIN pending
  /\ pending[p].op = "addStructure"
  /\ calls' = calls + 1
  /\ pending' = [j \in 1..(Len(pending) - 1) |-> IF j < p THEN pending[j] ELSE pending[j + 1]]
  /\ UNCHANGED <<menuManager, modelsLoader, client, history, loader, now, pruneDue, enemyModel, structureModel, modelCache, metrics,
                 enemies, timers, currentTask, nextTaskId, game, lastInference, evictedKeys>>
  /\ LET call == pending[p]
         obs0 == [NoObs EXCEPT !.op = "addStructureResume", !.level = call.level,
                              !.prediction = call.prediction,
                              !.inFlight = Len(pending) - 1,
                              !.errorsBefore = errors,
                              !.enemiesBefore = Len(enemies),
                              !.structuresBefore = Len(structures)]
         idx == BuildingIndex(call.prediction[1])
         position == <<Denormalize(call.prediction[2]), Denormalize(call.prediction[3])>>
         chosen == [obs0 EXCEPT !.index = idx - 1, !.position = position]
         obs == IF dataFails THEN obs0 ELSE chosen
     IN IF dataFails
        THEN /\ errors' = errors + 1
             /\ last' = [obs EXCEPT !.outcome = "error"]
             /\ UNCHANGED <<structures, scene, nextHandle>>
        ELSE IF idx \notin DOMAIN BuildingIds \/ BuildingIds[idx] \notin CityBuildings
        THEN /\ last' = [obs EXCEPT !.outcome = "noBuilding"]
             /\ UNCHANGED <<structures, scene, nextHandle, errors>>
        ELSE IF ~CheckCollision(position, BuildingSize(BuildingIds[idx]), structures)
        THEN /\ last' = [obs EXCEPT !.outcome = "collision"]
             /\ UNCHANGED <<structures, scene, nextHandle, errors>>
        ELSE IF ~HasModel(BuildingIds[idx])
        THEN /\ last' = [obs EXCEPT !.outcome = "noModel"]
             /\ UNCHANGED <<structures, scene, nextHandle, errors>>
        ELSE IF cloneFails
        THEN /\ errors' = errors + 1
             /\ last' = [obs EXCEPT !.outcome = "error"]
             /\ UNCHANGED <<structures, scene, nextHandle>>
        ELSE /\ structures' = Append(structures, [model |-> nextHandle, pos |-> position,
                                                  id |-> BuildingIds[idx]])
             /\ scene' = scene \cup {nextHandle}
             /\ nextHandle' = nextHandle + 1
             /\ last' = [obs EXCEPT !.outcome = "done"]
             /\ UNCHANGED errors

(***************************************************************************)
(* What lives outside the director's fields: the references a caller of   *)
(* the accessors holds, and the history the claims speak about             *)
(***************************************************************************)
\* A reference a caller holds.  live tells that it refers to the object the
\* director's field refers to now; when it does not, value is the content
\* of the object it refers to.  fresh tells that the director has run no
\* maintenance pass and no dispose since the caller obtained the list.
NoList == [held |-> FALSE, live |-> FALSE, value |-> <<>>, fresh |-> FALSE]

NoSnapshot ==
  [held |-> FALSE, live |-> FALSE,
   value |-> [predictions |-> 0, cacheHits |-> 0, cacheMisses |-> 0]]

\* a caller that has called no accessor yet
NoClient == [list |-> NoList, snapshot |-> NoSnapshot]

\* `this.enemies = ...` makes the field refer to a new array: a reference
\* held by a caller goes on referring to the old one, whose content is items
Detach(ref, items) ==
  IF ref.held
  THEN [ref EXCEPT !.fresh = FALSE, !.live = FALSE,
                   !.value = IF ref.live THEN items ELSE @]
  ELSE ref

\* taskIds: the ids of the tasks generated so far, in the order of their
\* generation; disposedIn: the phase loadModels was in when dispose was
\* called last ("none": it was not called); released: the prediction
\* tensors on which dispose() was called
NoHistory == [taskIds |-> <<>>, disposedIn |-> "none", released |-> {}]

(***************************************************************************)
(* The MenuManager: the registered menus and showMenu                      *)
(***************************************************************************)
\* the keys under which initializeMenus registers the menus of the page
MenuKeys == {"main", "character", "kit", "scoreboard", "settings", "pause", "gameOver"}

\* the ids showMenu is called with: the keys, 'none', and an id that is never
\* registered
MenuIds == MenuKeys \cup {"none", "shop"}

\* number of showMenu frames the call stack of the engine holds; the call
\* that needs one more throws a RangeError
MaxStack == 4

\* the MenuManager after its field initialisers and `this.menus = new Map()`.
\* hidden: the registered menus whose element has the class 'hidden';
\* activeMenu "null": this.activeMenu is null
NoMenuManager ==
  [phase |-> "constructed", menus |-> {}, hidden |-> {}, activeMenu |-> "null",
   listeners |-> FALSE]

\* showMenu(menuId) entered as frame number depth of the call stack: the
\* MenuManager it leaves, whether it returned, and the deepest frame entered
RECURSIVE ShowMenuFrom(_, _, _)
ShowMenuFrom(mm, menuId, depth) ==
  IF depth > MaxStack
  THEN [mm |-> mm, outcome |-> "RangeError", depth |-> depth - 1]
  ELSE LET allHidden == [mm EXCEPT !.hidden = mm.menus]
       IN IF menuId = "none"
          THEN [mm |-> [allHidden EXCEPT !.activeMenu = "null"],
                outcome |-> "returned", depth |-> depth]
          ELSE IF menuId \in mm.menus
          THEN [mm |-> [allHidden EXCEPT !.hidden = @ \ {menuId}, !.activeMenu = menuId],
                outcome |-> "returned", depth |-> depth]
          ELSE ShowMenuFrom(allHidden, "main", depth + 1)

\* a call of the public showMenu(menuId)
ShowMenu(menuId) ==
  /\ menuId \in MenuIds
  /\ LET r == ShowMenuFrom(menuManager, menuId, 1)
     IN /\ menuManager' = r.mm
        /\ last' = [NoObs EXCEPT !.op = "showMenu", !.outcome = r.outcome,
                                 !.key = <<menuId>>, !.n = r.depth]
  /\ UNCHANGED <<now, pruneDue, enemyModel, structureModel, modelCache, metrics,
                 enemies, structures, scene, nextHandle, timers, currentTask,
                 nextTaskId, game, pending, errors, calls, lastInference,
                 evictedKeys, loader, client, history, modelsLoader>>

\* createCharacterCarousel and createKitCarousel: each shows the main menu
\* and returns when its grid is not on the page
CreateCarousel(mm, gridFound) ==
  IF gridFound
  THEN [mm |-> mm, outcome |-> "returned", depth |-> 0]
  ELSE ShowMenuFrom(mm, "main", 1)

\* initializeMenus, called by the constructor.
\* characters, kits: the lengths of the data the ModelsLoader returns;
\* present: the keys whose element is on the page; pageHidden: those of them
\* the page marks 'hidden'; characterGrid, kitGrid: whether the grids are on
\* the page.
InitializeMenus(characters, kits, present, pageHidden, characterGrid, kitGrid) ==
  /\ menuManager.phase = "constructed"
  /\ present \subseteq MenuKeys
  /\ pageHidden \subseteq present
  /\ LET noData == ShowMenuFrom(menuManager, "main", 1)
         registered == [menuManager EXCEPT !.menus = present, !.hidden = pageHidden,
                                           !.listeners = TRUE]
         first == CreateCarousel(registered, characterGrid)
         second == CreateCarousel(first.mm, kitGrid)
         r == IF characters = 0 \/ kits = 0 THEN noData
              ELSE IF first.outcome # "returned" THEN first
              ELSE [second EXCEPT !.depth = IF first.depth > @ THEN first.depth ELSE @]
     IN /\ menuManager' = [r.mm EXCEPT !.phase = IF r.outcome = "returned"
                                                 THEN "initialized" ELSE "failed"]
        /\ last' = [NoObs EXCEPT !.op = "initializeMenus", !.outcome = r.outcome,
                                 !.key = <<"main">>, !.n = r.depth,
                                 !.enemiesBefore = Cardinality(menuManager.menus)]
  /\ UNCHANGED <<now, pruneDue, enemyModel, structureModel, modelCache, metrics,
                 enemies, structures, scene, nextHandle, timers, currentTask,
                 nextTaskId, game, pending, errors, calls, lastInference,
                 evictedKeys, loader, client, history, modelsLoader>>

(***************************************************************************)
(* The ModelsLoader: loadModelWithRetry                                    *)
(***************************************************************************)
MAX_RETRIES == 3
RETRY_DELAY == 1000

\* the paths a model is loaded from and the errors an attempt fails with
ModelPaths == {"/models/a.glb", "/models/b.glb"}
LoadErrors == {"network", "parse", "timeout"}

\* no loadModelWithRetry call has been made.  attempts: the outcome of every
\* attempt of the call so far; waited: the delays it has slept; result: the
\* value it resolved with or the error it rejected with
NoLoad ==
  [phase |-> "idle", path |-> "none", retryCount |-> 0, attempts |-> <<>>,
   waited |-> <<>>, result |-> "none"]

\* `retryCount < this.MAX_RETRIES`
RetryAllowed_inclusive(retryCount) == retryCount <= MAX_RETRIES

RetryAllowed(retryCount) == retryCount < MAX_RETRIES

\* loadModelWithRetry(modelPath) is called, retryCount defaulting to 0, and
\* is suspended at `await this.loader.loadAsync(modelPath)`
LoadModelWithRetry(modelPath) ==
  /\ modelPath \in ModelPaths
  /\ modelsLoader.phase \in {"idle", "resolved", "rejected"}
  /\ modelsLoader' = [NoLoad EXCEPT !.phase = "loading", !.path = modelPath]
  /\ last' = [NoObs EXCEPT !.op = "loadModelWithRetry", !.key = <<modelPath>>]
  /\ UNCHANGED <<now, pruneDue, enemyModel, structureModel, modelCache, metrics,
                 enemies, structures, scene, nextHandle, timers, currentTask,
                 nextTaskId, game, pending, errors, calls, lastInference,
                 evictedKeys, loader, client, history, menuManager>>

\* the try block of the current attempt ends: outcome "loaded" when loadAsync
\* resolved and optimizeModel returned, otherwise the error caught
LoadAttempt(outcome) ==
  /\ outcome \in {"loaded"} \cup LoadErrors
  /\ modelsLoader.phase = "loading"
  /\ modelsLoader' =
       [modelsLoader EXCEPT
          !.attempts = Append(@, outcome),
          !.phase = IF outcome = "loaded" THEN "resolved"
                    ELSE IF RetryAllowed(modelsLoader.retryCount) THEN "waiting"
                    ELSE "rejected",
          !.result = IF outcome = "loaded" THEN modelsLoader.path
                     ELSE IF RetryAllowed(modelsLoader.retryCount) THEN @
                     ELSE outcome]
  /\ last' = [NoObs EXCEPT !.op = "loadAttempt", !.outcome = outcome,
                           !.n = Len(modelsLoader.attempts) + 1]
  /\ UNCHANGED <<now, pruneDue, enemyModel, structureModel, modelCache, metrics,
                 enemies, structures, scene, nextHandle, timers, currentTask,
                 nextTaskId, game, pending, errors, calls, lastInference,
                 evictedKeys, loader, client, history, menuManager>>

\* the setTimeout of RETRY_DELAY * (retryCount + 1) fires and the call
\* recurses with retryCount + 1
RetryTimeout ==
  /\ modelsLoader.phase = "waiting"
  /\ modelsLoader' =
       [modelsLoader EXCEPT
          !.waited = Append(@, RETRY_DELAY * (modelsLoader.retryCount + 1)),
          !.retryCount = @ + 1,
          !.phase = "loading"]
  /\ last' = [NoObs EXCEPT !.op = "retryTimeout", !.n = modelsLoader.retryCount + 1]
  /\ UNCHANGED <<now, pruneDue, enemyModel, structureModel, modelCache, metrics,
                 enemies, structures, scene, nextHandle, timers, currentTask,
                 nextTaskId, game, pending, errors, calls, lastInference,
                 evictedKeys, loader, client, history, menuManager>>

(***************************************************************************)
(* The task director and the Game handlers that drive it                   *)
(***************************************************************************)
\* a variant of the generated task whose reward does not grow with the level
NewTask_flatReward(level, id) ==
  [id |-> id, target |-> level * 2, progress |-> 0, reward |-> 50,
   completedAt |-> None]

\* the task generateDynamicTask installs
NewTask(level, id) ==
  [id |-> id, target |-> level * 2, progress |-> 0, reward |-> level * 50,
   completedAt |-> None]

\* updateTaskProgress, as a function of the current task
UpdateTaskProgress(task, increment) ==
  IF task # NoTask /\ increment
  THEN [task EXCEPT !.progress = @ + 1,
                    !.completedAt = IF task.progress + 1 >= task.target THEN now ELSE @]
  ELSE task

\* generateDynamicTask(level)
GenerateDynamicTask(level) ==
  /\ currentTask' = NewTask(level, nextTaskId)
  /\ nextTaskId' = nextTaskId + 1
  /\ history' = [history EXCEPT !.taskIds = Append(@, nextTaskId)]
  /\ calls' = calls + 1
  /\ last' = [NoObs EXCEPT !.op = "generateDynamicTask", !.level = level,
                           !.taskBefore = currentTask]
  /\ UNCHANGED <<menuManager, modelsLoader, client, loader, now, pruneDue, enemyModel, structureModel, modelCache,
                 metrics, enemies, structures, scene, nextHandle, timers, game,
                 pending, errors, lastInference, evictedKeys>>

\* updateTaskProgress(increment)
UpdateTaskProgressCall(increment) ==
  /\ currentTask' = UpdateTaskProgress(currentTask, increment)
  /\ calls' = calls + 1
  /\ last' = [NoObs EXCEPT !.op = "updateTaskProgress", !.increment = increment,
                           !.taskBefore = currentTask]
  /\ UNCHANGED <<menuManager, modelsLoader, client, history, loader, now, pruneDue, enemyModel, structureModel,
                 modelCache, metrics, enemies, structures, scene, nextHandle, timers,
                 nextTaskId, game, pending, errors, lastInference, evictedKeys>>

\* a variant of the death test that spares an enemy at health exactly 0
IsDead_lt(health) == health < 0

\* the test `enemy.health <= 0` of the Game handlers that damage an enemy
IsDead(health) == health <= 0

\* Array.splice(index, 1)
Splice(seq, index) ==
  [j \in 1..(Len(seq) - 1) |-> IF j < index THEN seq[j] ELSE seq[j + 1]]

\* The forEach of createAreaEffect from index i (from 1) on.  forEach visits
\* the indices below the length the array had at the start that are still in
\* the array; an enemy that is spliced out shifts the ones behind it down.
\* st: enemies, scene, score, task.
RECURSIVE AreaLoop(_, _, _, _, _)
AreaLoop(st, i, n0, radius, damage) ==
  IF i > n0 \/ i > Len(st.enemies)
  THEN st
  ELSE LET enemy == st.enemies[i]
           health == enemy.health - damage
       IN IF ~CloserThan(enemy.pos, game.player, radius)
          THEN AreaLoop(st, i + 1, n0, radius, damage)
          ELSE IF ~IsDead(health)
          THEN AreaLoop([st EXCEPT !.enemies[i].health = health], i + 1, n0, radius, damage)
          ELSE AreaLoop([st EXCEPT !.enemies = Splice(@, i),
                                   !.scene = @ \ {enemy.model},
                                   !.score = @ + 10,
                                   !.task = UpdateTaskProgress(@, TRUE)],
                        i + 1, n0, radius, damage)

\* Game.createAreaEffect(radius, damage, color) with damage > 0.  The effect
\* mesh, which is shown for 200 ms, is no entity of the director and is left
\* out.
CreateAreaEffect(radius, damage) ==
  /\ damage > 0
  /\ \E st \in {AreaLoop([enemies |-> enemies, scene |-> scene, score |-> game.score,
                          task |-> currentTask], 1, Len(enemies), radius, damage)} :
       /\ enemies' = st.enemies
       /\ scene' = st.scene
       /\ game' = [game EXCEPT !.score = st.score]
       /\ currentTask' = st.task
       /\ last' = [NoObs EXCEPT !.op = "createAreaEffect",
                                !.enemiesBefore = Len(enemies),
                                !.n = Len(enemies) - Len(st.enemies)]
  /\ UNCHANGED <<menuManager, modelsLoader, client, history, loader, now, pruneDue, enemyModel, structureModel, modelCache, metrics,
                 structures, nextHandle, timers, nextTaskId, pending, errors, calls,
                 lastInference, evictedKeys>>

\* the events of spawnEvent, in the order it goes through them, with the
\* model createEventItem looks up for each
Events ==
  <<[type |-> "health_kit", minLevel |-> 2, model |-> "detail-parasol"],
    [type |-> "speed_boost", minLevel |-> 3, model |-> "detail-speed"],
    [type |-> "power_up", minLevel |-> 4, model |-> "detail-power"]>>

\* The number of items spawnEvent(level) adds to the scene.  rolls is the
\* set of event types for which Math.random() fell below the chance of the
\* event.  createEventItem adds an item when the model of the event is
\* loaded; the item is kept in no list of the director.
EventItems(level, rolls) ==
  Cardinality({i \in DOMAIN Events : /\ level >= Events[i].minLevel
                                     /\ Events[i].type \in rolls
                                     /\ HasModel(Events[i].model)})

\* The task part of Game.gameLoop: a task is generated when there is none,
\* then updateLevel raises the level to floor(score / 50) + 1, generates the
\* task of the new level and calls spawnEvent, whose items get fresh handles
\* (their position, found by findSafeSpawnPosition, is not kept: the planner
\* does not look at items).
GameLoopTask(rolls) ==
  LET first == IF currentTask = NoTask THEN NewTask(game.level, nextTaskId) ELSE currentTask
      id == IF currentTask = NoTask THEN nextTaskId + 1 ELSE nextTaskId
      generated == IF currentTask = NoTask THEN Append(history.taskIds, nextTaskId)
                   ELSE history.taskIds
      newLevel == (game.score \div 50) + 1
      items == EventItems(newLevel, rolls)
  IN /\ IF newLevel > game.level
        THEN /\ game' = [game EXCEPT !.level = newLevel]
             /\ currentTask' = NewTask(newLevel, id)
             /\ nextTaskId' = id + 1
             /\ scene' = scene \cup (nextHandle..(nextHandle + items - 1))
             /\ nextHandle' = nextHandle + items
             /\ history' = [history EXCEPT !.taskIds = generated \o <<id>>]
             /\ last' = [NoObs EXCEPT !.op = "gameLoop", !.n = items]
        ELSE /\ currentTask' = first
             /\ nextTaskId' = id
             /\ history' = [history EXCEPT !.taskIds = generated]
             /\ last' = [NoObs EXCEPT !.op = "gameLoop"]
             /\ UNCHANGED <<game, scene, nextHandle>>
     /\ UNCHANGED <<menuManager, modelsLoader, client, now, pruneDue, enemyModel, structureModel, modelCache, metrics,
                    enemies, structures, timers, pending, errors,
                    calls, lastInference, evictedKeys, loader>>

\* index of the enemy whose model is the given handle, 0 when it is not in
\* the list (Array.indexOf gives -1)
IndexOfModel(es, handle) ==
  IF \E i \in DOMAIN es : es[i].model = handle
  THEN CHOOSE i \in DOMAIN es : es[i].model = handle
  ELSE 0

\* getEnemies().splice(getEnemies().indexOf(enemy), 1): with indexOf = -1,
\* splice(-1, 1) removes the last element of the array
SpliceIndexOf(es, handle) ==
  IF IndexOfModel(es, handle) # 0 THEN Splice(es, IndexOfModel(es, handle))
  ELSE IF es # <<>> THEN Splice(es, Len(es))
  ELSE es

\* Game.shoot when the ray hits the enemy at index target, with the damage
\* and the effect ("none" or "area") of the equipped kit.  (The bullet mesh
\* and the ammunition count are left out.)
Shoot(target, damage, effect) ==
  /\ target \in DOMAIN enemies
  /\ LET hit == enemies[target]
         st0 == [enemies |-> [enemies EXCEPT ![target].health = @ - damage],
                 scene |-> scene, score |-> game.score, task |-> currentTask]
         st1 == IF effect = "area"
                THEN AreaLoop(st0, 1, Len(enemies), 1, damage \div 2)
                ELSE st0
         idx == IndexOfModel(st1.enemies, hit.model)
         health == IF idx # 0 THEN st1.enemies[idx].health
                   ELSE hit.health - damage - (damage \div 2)
         task == UpdateTaskProgress(st1.task, TRUE)
         done == task # NoTask /\ task.progress >= task.target
     IN IF IsDead(health)
        THEN /\ enemies' = SpliceIndexOf(st1.enemies, hit.model)
             /\ scene' = st1.scene \ {hit.model}
             /\ game' = [game EXCEPT !.score = st1.score + 10
                                                + (IF done THEN task.reward ELSE 0)]
             /\ currentTask' = IF done THEN NewTask(game.level, nextTaskId) ELSE task
             /\ nextTaskId' = IF done THEN nextTaskId + 1 ELSE nextTaskId
             /\ history' = IF done
                           THEN [history EXCEPT !.taskIds = Append(@, nextTaskId)]
                           ELSE history
             /\ last' = [NoObs EXCEPT !.op = "shoot", !.outcome = "killed",
                                      !.handle = hit.model, !.health = health,
                                      !.enemiesBefore = Len(enemies),
                                      !.removed = Len(enemies) - Len(enemies')]
        ELSE /\ enemies' = st1.enemies
             /\ scene' = st1.scene
             /\ game' = [game EXCEPT !.score = st1.score]
             /\ currentTask' = st1.task
             /\ last' = [NoObs EXCEPT !.op = "shoot", !.outcome = "hit",
                                      !.handle = hit.model, !.health = health,
                                      !.enemiesBefore = Len(enemies),
                                      !.removed = Len(enemies) - Len(st1.enemies)]
             /\ UNCHANGED <<nextTaskId, history>>
  /\ UNCHANGED <<menuManager, modelsLoader, client, now, pruneDue, enemyModel, structureModel, modelCache, metrics,
                 structures, nextHandle, timers, pending, errors, calls,
                 lastInference, evictedKeys, loader>>

(***************************************************************************)
(* loadModels and dispose                                                  *)
(* loader.phase is the await at which loadModels is suspended: "ready"     *)
(* (tf.ready), "loading" (the two initial loads), "training" (trainModels),*)
(* "reloading" (the two repeated loads), or "done" / "failed" once it has  *)
(* returned.  enemyFirst and structureFirst keep how the initial loads     *)
(* ended, trained how the training ended.  errors counts the reports of    *)
(* the director's own catch blocks.                                        *)
(***************************************************************************)
\* loadModels as the constructor leaves it: suspended at `await tf.ready()`
LoaderStart ==
  [phase |-> "ready", trainCalls |-> 0, enemyLoads |-> 0, structureLoads |-> 0,
   enemyFirst |-> "pending", structureFirst |-> "pending", trained |-> "no"]

\* a variant of the test that trains only when both initial loads failed
NeedsTraining_both(enemyOk, structureOk) == ~enemyOk /\ ~structureOk

\* the test `!enemyModel || !structureModel` of loadModels
NeedsTraining(enemyOk, structureOk) == ~enemyOk \/ ~structureOk

\* the frame of a loadModels step
LoaderFrame ==
  UNCHANGED <<menuManager, modelsLoader, client, history, now, pruneDue, modelCache, metrics, enemies, structures, scene,
              nextHandle, timers, currentTask, nextTaskId, game, pending, calls,
              lastInference, evictedKeys>>

\* tf.ready() settles; when it resolves the two initial loads are started
LoadModelsReady(ok) ==
  /\ loader.phase = "ready"
  /\ loader' = IF ok
               THEN [loader EXCEPT !.phase = "loading", !.enemyLoads = @ + 1,
                                   !.structureLoads = @ + 1]
               ELSE [loader EXCEPT !.phase = "failed"]
  /\ errors' = IF ok THEN errors ELSE errors + 1
  /\ last' = [NoObs EXCEPT !.op = "loadModels", !.outcome = loader'.phase]
  /\ UNCHANGED <<enemyModel, structureModel>>
  /\ LoaderFrame

\* the two initial loads have settled (a failed one gives null): the fields
\* are assigned and, when one is null, trainModels is invoked
LoadModelsLoaded(enemyOk, structureOk) ==
  /\ loader.phase = "loading"
  /\ enemyModel' = enemyOk
  /\ structureModel' = structureOk
  /\ loader' = [loader EXCEPT
                  !.enemyFirst = IF enemyOk THEN "ok" ELSE "failed",
                  !.structureFirst = IF structureOk THEN "ok" ELSE "failed",
                  !.phase = IF NeedsTraining(enemyOk, structureOk)
                            THEN "training" ELSE "done",
                  !.trainCalls = IF NeedsTraining(enemyOk, structureOk)
                                 THEN @ + 1 ELSE @,
                  !.trained = IF NeedsTraining(enemyOk, structureOk)
                              THEN "pending" ELSE @]
  /\ last' = [NoObs EXCEPT !.op = "loadModels", !.outcome = loader'.phase]
  /\ UNCHANGED errors
  /\ LoaderFrame

\* trainModels settles; when it resolves both loads are started again, when
\* it rejects the catch block reports the error
LoadModelsTrained(ok) ==
  /\ loader.phase = "training"
  /\ loader' = IF ok
               THEN [loader EXCEPT !.phase = "reloading", !.trained = "ok",
                                   !.enemyLoads = @ + 1, !.structureLoads = @ + 1]
               ELSE [loader EXCEPT !.phase = "failed", !.trained = "failed"]
  /\ errors' = IF ok THEN errors ELSE errors + 1
  /\ last' = [NoObs EXCEPT !.op = "loadModels", !.outcome = loader'.phase]
  /\ UNCHANGED <<enemyModel, structureModel>>
  /\ LoaderFrame

\* the two repeated loads have settled: both fields are assigned when both
\* resolved, otherwise Promise.all rejects and the catch block reports it
LoadModelsReloaded(enemyOk, structureOk) ==
  /\ loader.phase = "reloading"
  /\ IF enemyOk /\ structureOk
     THEN /\ enemyModel' = TRUE
          /\ structureModel' = TRUE
          /\ loader' = [loader EXCEPT !.phase = "done"]
          /\ UNCHANGED errors
     ELSE /\ loader' = [loader EXCEPT !.phase = "failed"]
          /\ errors' = errors + 1
          /\ UNCHANGED <<enemyModel, structureModel>>
  /\ last' = [NoObs EXCEPT !.op = "loadModels", !.outcome = loader'.phase]
  /\ LoaderFrame

\* the handles dispose removes from the scene: the models of the listed
\* enemies and the listed structures
ListedHandles(es, ss) ==
  {es[i].model : i \in DOMAIN es} \cup {ss[i].model : i \in DOMAIN ss}

\* dispose
Dispose ==
  /\ modelCache' = <<>>
  /\ enemyModel' = FALSE
  /\ structureModel' = FALSE
  /\ scene' = scene \ ListedHandles(enemies, structures)
  /\ enemies' = <<>>
  /\ structures' = <<>>
  /\ calls' = calls + 1
  /\ last' = [NoObs EXCEPT !.op = "dispose", !.enemiesBefore = Len(enemies),
                           !.structuresBefore = Len(structures),
                           !.after = last.op]
  /\ client' = [client EXCEPT !.list = Detach(@, enemies)]
  /\ history' = [history EXCEPT !.disposedIn = loader.phase,
                                !.released = @ \cup TensorsOf(modelCache)]
  /\ UNCHANGED <<menuManager, modelsLoader, now, pruneDue, metrics, nextHandle, timers, currentTask, nextTaskId,
                 game, pending, errors, lastInference, evictedKeys, loader>>

(***************************************************************************)
(* The maintenance timer and the clock                                     *)
(***************************************************************************)
\* a variant of the cache loop that stops after its first deletion
PruneCache_firstOnly(cache, t) ==
  IF \E i \in DOMAIN cache : IsStale(cache[i], t)
  THEN Splice(cache, CHOOSE i \in DOMAIN cache :
                       /\ IsStale(cache[i], t)
                       /\ \A j \in 1..(i - 1) : ~IsStale(cache[j], t))
  ELSE cache

\* the cache loop of the maintenance pass: every stale entry is deleted
PruneCache(cache, t) == SelectSeq(cache, LAMBDA e : ~IsStale(e, t))

\* the enemy filter of the maintenance pass
PruneEnemies(es) == SelectSeq(es, LAMBDA e : e.health > 0)

\* the callback of the setInterval of startPerformanceMonitoring
PrunePass ==
  /\ now >= pruneDue
  /\ pruneDue' = pruneDue + PRUNE_INTERVAL
  /\ modelCache' = PruneCache(modelCache, now)
  /\ enemies' = PruneEnemies(enemies)
  /\ client' = [client EXCEPT !.list = Detach(@, enemies)]
  /\ last' = [NoObs EXCEPT !.op = "prune", !.after = last.op,
                           !.enemiesBefore = Len(enemies),
                           !.removed = (Len(modelCache) - Len(modelCache'))
                                       + (Len(enemies) - Len(enemies')),
                           !.prevRemoved = IF last.op = "prune" THEN last.removed ELSE 0]
  /\ history' = [history EXCEPT
                   !.released = @ \cup (TensorsOf(modelCache) \ TensorsOf(modelCache'))]
  /\ UNCHANGED <<menuManager, modelsLoader, loader, now, enemyModel, structureModel, metrics, structures, scene,
                 nextHandle, timers, currentTask, nextTaskId, game, pending, errors,
                 calls, lastInference, evictedKeys>>

\* time passes
Tick(t) ==
  /\ t \in Instants
  /\ t > now
  /\ now' = t
  /\ last' = [NoObs EXCEPT !.op = "tick"]
  /\ UNCHANGED <<menuManager, modelsLoader, client, history, loader, pruneDue, enemyModel, structureModel, modelCache, metrics, enemies,
                 structures, scene, nextHandle, timers, currentTask, nextTaskId, game,
                 pending, errors, calls, lastInference, evictedKeys>>

(***************************************************************************)
(* The zigzag timers                                                       *)
(***************************************************************************)
\* this.enemies.find(e => e.id === id): the index of the first enemy with
\* the id, 0 when there is none
FindById(es, id) ==
  IF \E i \in DOMAIN es : es[i].id = id
  THEN CHOOSE i \in DOMAIN es : es[i].id = id /\ \A j \in 1..(i - 1) : es[j].id # id
  ELSE 0

\* direction * 0.5 * enemy.speed * deltaTime, elapsed being the milliseconds
\* since enemy.lastUpdate (deltaTime = elapsed / 1000)
ZigzagOffset(direction, speed, elapsed) == direction * ((speed * elapsed) \div 2000)

\* a variant of keepInBounds that clamps nothing
KeepInBounds_none(position) == position

\* keepInBounds
KeepInBounds(position) == <<Clamp(position[1]), Clamp(position[2])>>

\* One tick of the setInterval callback of applyZigzagMovement.  The timer
\* fires when its interval has elapsed; the next tick is due one interval
\* after this one.
ZigzagTick(timer) ==
  /\ timer \in timers
  /\ now >= timer.due
  /\ LET idx == FindById(enemies, timer.id)
         obs == [NoObs EXCEPT !.op = "zigzag", !.handle = timer.owner,
                              !.prevOffset = timer.applied,
                              !.enemiesBefore = Len(enemies),
                              !.ownerLive = \E i \in DOMAIN enemies :
                                               enemies[i].model = timer.owner]
     IN IF idx = 0
        THEN /\ timers' = timers \ {timer}
             /\ last' = [obs EXCEPT !.outcome = "cancelled"]
             /\ UNCHANGED enemies
        ELSE LET enemy == enemies[idx]
                 elapsed == now - enemy.lastUpdate
                 offset == ZigzagOffset(timer.direction, enemy.speed, elapsed)
             IN /\ enemies' = [enemies EXCEPT
                                 ![idx].lastUpdate = now,
                                 ![idx].pos = KeepInBounds(<<enemy.pos[1] + offset,
                                                            enemy.pos[2]>>)]
                /\ timers' = (timers \ {timer})
                               \cup {[timer EXCEPT !.direction = 0 - @,
                                                  !.due = now + ZigzagInterval(timer.level),
                                                  !.ticks = @ + 1,
                                                  !.applied = offset]}
                /\ last' = [obs EXCEPT !.outcome = "moved", !.index = idx,
                                       !.n = timer.ticks + 1,
                                       !.offset = offset, !.elapsed = elapsed]
  /\ UNCHANGED <<menuManager, modelsLoader, client, history, loader, now, pruneDue, enemyModel, structureModel,
                 modelCache, metrics, structures, scene, nextHandle, currentTask,
                 nextTaskId, game, pending, errors, calls, lastInference, evictedKeys>>

(***************************************************************************)
(* The accessors and what a caller does with what they return              *)
(***************************************************************************)
\* a variant of getEnemies that returns a copy of the array
EnemiesRef_copy(es) == [held |-> TRUE, live |-> FALSE, value |-> es, fresh |-> TRUE]

\* what getEnemies returns: this.enemies itself
EnemiesRef(es) == [held |-> TRUE, live |-> TRUE, value |-> <<>>, fresh |-> TRUE]

\* a variant of getMetrics that returns this.metrics itself
MetricsSnapshot_live(m) == [held |-> TRUE, live |-> TRUE, value |-> m]

\* what getMetrics returns: { ...this.metrics }, a new object with the same
\* fields (all of them numbers or strings)
MetricsSnapshot(m) == [held |-> TRUE, live |-> FALSE, value |-> m]

\* the content of the list the caller holds
HeldList == IF client.list.live THEN enemies ELSE client.list.value

\* the content of the snapshot the caller holds
HeldSnapshot == IF client.snapshot.live THEN metrics ELSE client.snapshot.value

\* the frame of a step of the caller
ClientFrame ==
  UNCHANGED <<menuManager, modelsLoader, history, loader, now, pruneDue, enemyModel, structureModel, modelCache,
              structures, scene, nextHandle, timers, currentTask, nextTaskId, game,
              pending, errors, lastInference, evictedKeys>>

\* the caller calls getEnemies() and keeps what it returns
GetEnemies ==
  /\ client' = [client EXCEPT !.list = EnemiesRef(enemies)]
  /\ calls' = calls + 1
  /\ last' = [NoObs EXCEPT !.op = "getEnemies", !.enemiesBefore = Len(enemies)]
  /\ UNCHANGED <<enemies, metrics>>
  /\ ClientFrame

\* the caller removes the element at index i of the list it holds
\* (list.splice(i - 1, 1))
ClientRemove(i) ==
  /\ client.list.held
  /\ i \in DOMAIN HeldList
  /\ IF client.list.live
     THEN /\ enemies' = Splice(enemies, i)
          /\ UNCHANGED client
     ELSE /\ client' = [client EXCEPT !.list.value = Splice(@, i)]
          /\ UNCHANGED enemies
  /\ calls' = calls + 1
  /\ last' = [NoObs EXCEPT !.op = "clientRemove",
                           !.outcome = IF client.list.fresh THEN "fresh" ELSE "old",
                           !.handle = HeldList[i].model,
                           !.enemiesBefore = Len(enemies)]
  /\ UNCHANGED metrics
  /\ ClientFrame

\* the caller calls getMetrics() and keeps what it returns
GetMetrics ==
  /\ client' = [client EXCEPT !.snapshot = MetricsSnapshot(metrics)]
  /\ calls' = calls + 1
  /\ last' = [NoObs EXCEPT !.op = "getMetrics"]
  /\ UNCHANGED <<enemies, metrics>>
  /\ ClientFrame

\* the caller assigns the field predictions of the snapshot it holds
ClientEditSnapshot(v) ==
  /\ client.snapshot.held
  /\ IF client.snapshot.live
     THEN /\ metrics' = [metrics EXCEPT !.predictions = v]
          /\ UNCHANGED client
     ELSE /\ client' = [client EXCEPT !.snapshot.value.predictions = v]
          /\ UNCHANGED metrics
  /\ calls' = calls + 1
  /\ last' = [NoObs EXCEPT !.op = "clientEdit", !.n = v]
  /\ UNCHANGED enemies
  /\ ClientFrame

(***************************************************************************)
(* Initial states                                                          *)
(***************************************************************************)
\* the i-th of the signatures the game has asked for at level 1: the enemy
\* counts 0..49 with no building placed, then with one building placed
FillerKey(i) == CacheKey(1, (i - 1) % MAX_ENEMIES, (i - 1) \div MAX_ENEMIES)

\* the signatures the cache specification asks for
TestKeys == {FillerKey(1), FillerKey(2), CacheKey(2, 0, 0)}

\* a cache of n entries, inserted at time 0 (the first) and at time 1
FilledCache(n) ==
  [i \in 1..n |-> [key |-> FillerKey(i), prediction |-> <<3, 0>>, tensor |-> 0 - i,
                   timestamp |-> IF i = 1 THEN 0 ELSE 1]]

\* loadModels has finished: both initial loads succeeded, nothing was trained
LoaderDone ==
  [phase |-> "done", trainCalls |-> 0, enemyLoads |-> 1, structureLoads |-> 1,
   enemyFirst |-> "ok", structureFirst |-> "ok", trained |-> "no"]

\* the director once loadModels has loaded both predictors, nothing spawned yet
InitLoaded ==
  /\ now = 0
  /\ pruneDue = PRUNE_INTERVAL
  /\ enemyModel = TRUE
  /\ structureModel = TRUE
  /\ modelCache = <<>>
  /\ metrics = [predictions |-> 0, cacheHits |-> 0, cacheMisses |-> 0]
  /\ enemies = <<>>
  /\ structures = <<>>
  /\ scene = {}
  /\ nextHandle = 1
  /\ timers = {}
  /\ currentTask = NoTask
  /\ nextTaskId = 1
  /\ game = [score |-> 0, level |-> 1, player |-> <<0, 0>>]
  /\ pending = <<>>
  /\ errors = 0
  /\ calls = 0
  /\ last = NoObs
  /\ lastInference = [k \in {} |-> None]
  /\ evictedKeys = {}
  /\ loader = LoaderDone
  /\ client = NoClient
  /\ history = NoHistory
  /\ menuManager = NoMenuManager
  /\ modelsLoader = NoLoad

\* the director after n spawnEnemy calls with the signatures FillerKey(1..n),
\* each of which ran an inference whose output asked for no enemy
InitFilled(n) ==
  /\ now = IF n = 0 THEN 0 ELSE 1
  /\ pruneDue = PRUNE_INTERVAL
  /\ enemyModel = TRUE
  /\ structureModel = TRUE
  /\ modelCache = FilledCache(n)
  /\ metrics = [predictions |-> n, cacheHits |-> 0, cacheMisses |-> n]
  /\ enemies = <<>>
  /\ structures = <<>>
  /\ scene = {}
  /\ nextHandle = 1
  /\ timers = {}
  /\ currentTask = NoTask
  /\ nextTaskId = 1
  /\ game = [score |-> 0, level |-> 1, player |-> <<0, 0>>]
  /\ pending = <<>>
  /\ errors = 0
  /\ calls = 0
  /\ last = NoObs
  /\ lastInference = [k \in {FillerKey(i) : i \in 1..n} |->
                        IF k = FillerKey(1) THEN 0 ELSE 1]
  /\ evictedKeys = {}
  /\ loader = LoaderDone
  /\ client = NoClient
  /\ history = NoHistory
  /\ menuManager = NoMenuManager
  /\ modelsLoader = NoLoad

(***************************************************************************)
(* The cache specification: spawnEnemy calls, the maintenance timer and    *)
(* the clock, from an empty cache and from a cache filled to its capacity  *)
(***************************************************************************)
CacheOutputs == {<<3, 0>>}

InitCache == \E n \in {0, MAX_CACHE_SIZE} : InitFilled(n)

NextCache ==
  \/ \E key \in TestKeys, out \in CacheOutputs, predictFails \in BOOLEAN :
       /\ calls < MaxCalls
       /\ Len(pending) < MaxPending
       /\ SpawnEnemy(key[1], key[2], key[3], out, predictFails)
  \/ \E p \in 1..MaxPending, dataFails \in BOOLEAN :
       SpawnEnemyResume(p, dataFails, <<1>>, <<<<0, 0>>>>, None)
  \/ PrunePass
  \/ \E t \in Instants :
       /\ t <= MaxTime
       /\ Tick(t)

SpecCache == InitCache /\ [][NextCache]_vars

(***************************************************************************)
(* Claims about the inference cache                                        *)
(***************************************************************************)
\* C1: a spawnEnemy call that finds an entry of its signature whose age has
\* reached CACHE_TTL does not serve it: the call is no hit, the hit counter
\* keeps its value, and when the inference succeeds the call is counted as a
\* miss and the entry carries the time of the call.
C1_StaleNeverServed ==
  (last.op = "spawnEnemy" /\ last.outcome # "skipped" /\ last.age >= CACHE_TTL)
    => /\ last.outcome \in {"miss", "error"}
       /\ metrics.cacheHits = last.hitsBefore
       /\ last.outcome = "miss" =>
            /\ metrics.cacheMisses = last.missesBefore + 1
            /\ modelCache[CacheIndex(modelCache, last.key)].timestamp = now

\* C1 witness: an entry that no prune pass has removed is found at an age of at
\* least CACHE_TTL and the call runs a fresh inference
C1_Witness ==
  /\ last.op = "spawnEnemy"
  /\ last.age >= CACHE_TTL
  /\ last.outcome = "miss"

\* C2 as stated: a spawnEnemy call for a signature made less than CACHE_TTL
\* after the latest inference for that signature does not increase cacheMisses
C2_Original ==
  (last.op = "spawnEnemy" /\ last.prevInference # None
     /\ now < last.prevInference + CACHE_TTL)
    => metrics.cacheMisses = last.missesBefore

\* C2 amended: a spawnEnemy call for a signature made less than CACHE_TTL after
\* the latest inference for that signature does not increase cacheMisses,
\* unless the entry of that inference was evicted for capacity in between
C2_NoMissWithinTtlUnlessEvicted ==
  (last.op = "spawnEnemy" /\ last.prevInference # None
     /\ now < last.prevInference + CACHE_TTL /\ ~last.wasEvicted)
    => /\ metrics.cacheMisses = last.missesBefore
       /\ last.outcome \in {"hit", "skipped"}

\* C2 witness: a signature inferred before the first prune pass is served from
\* the cache after that pass and after calls with other signatures
C2_Witness ==
  /\ last.op = "spawnEnemy"
  /\ last.outcome = "hit"
  /\ last.prevInference # None
  /\ last.prevInference < PRUNE_INTERVAL
  /\ pruneDue > PRUNE_INTERVAL
  /\ Len(modelCache) > 1

\* C3 as stated: the entry evicted for capacity has the earliest insertion
\* timestamp of all entries of the cache
C3_EvictsEarliest ==
  last.evictedTs # None =>
    \A i \in DOMAIN modelCache : last.evictedTs <= modelCache[i].timestamp

\* C25: the cache never holds more than MAX_CACHE_SIZE entries once a
\* spawnEnemy call has done its cache step; an inference whose insertion
\* overflows the capacity leaves the cache at its capacity (one entry in, one
\* out) with the inserted entry in it, any other inference evicts nothing.
C25_CacheWithinCapacity ==
  /\ Len(modelCache) <= MAX_CACHE_SIZE
  /\ (last.op = "spawnEnemy" /\ last.outcome = "miss")
       => /\ CacheIndex(modelCache, last.key) # 0
          /\ modelCache[CacheIndex(modelCache, last.key)].timestamp = now
          /\ Len(modelCache) =
               IF last.age # None THEN last.cacheBefore
               ELSE IF last.cacheBefore = MAX_CACHE_SIZE THEN MAX_CACHE_SIZE
               ELSE last.cacheBefore + 1

\* an inference for a new signature has found the cache full
C25_Witness ==
  /\ last.op = "spawnEnemy"
  /\ last.outcome = "miss"
  /\ last.age = None
  /\ last.cacheBefore = MAX_CACHE_SIZE
  /\ Len(modelCache) = MAX_CACHE_SIZE

(***************************************************************************)
(* The spawn specification: spawnEnemy and addStructure calls, several of  *)
(* them in flight, on an empty map and on a map close to the enemy cap     *)
(***************************************************************************)
MaxSpawnCalls == 3
MaxInFlight == 2

\* the position of the i-th enemy of the crowd: a grid of pitch 40
CrowdPos(i) == <<40 * ((i - 1) % 12) - 240, 40 * ((i - 1) \div 12) - 240>>

\* the position of the i-th enemy around the player at <<0, 0>>
ArenaPos(i) == <<(i - 1) % 2, (i - 1) \div 2>>

\* the positions of n enemies spread over the map or closed in on the player
EnemyPositions(n, closedIn) ==
  [i \in 1..n |-> IF closedIn THEN ArenaPos(i) ELSE CrowdPos(i)]

\* the building createEnvironment has put on the map
FirstStructurePos == <<100, 100>>

\* The director after createEnvironment placed one building and one
\* spawnEnemy(1, 0, 1/200) call, whose prediction was [0.3, n], created n
\* enemies of the character char_a, which are at the given positions
\* (where they were spawned or where Game.updateEnemies has moved them)
InitCrowdAt(n, positions) ==
  /\ now = 0
  /\ pruneDue = PRUNE_INTERVAL
  /\ enemyModel = TRUE
  /\ structureModel = TRUE
  /\ modelCache = IF n = 0 THEN <<>>
                  ELSE <<[key |-> CacheKey(1, 0, 1), prediction |-> <<3, 10 * n>>,
                          tensor |-> 0 - 1,
                          timestamp |-> 0]>>
  /\ metrics = IF n = 0 THEN [predictions |-> 0, cacheHits |-> 0, cacheMisses |-> 0]
               ELSE [predictions |-> 1, cacheHits |-> 0, cacheMisses |-> 1]
  /\ enemies = [i \in 1..n |-> [id |-> <<"char_a", 0, i - 1>>, model |-> i,
                                pos |-> positions[i], health |-> 50, speed |-> 50,
                                damage |-> 20, type |-> "basic", lastUpdate |-> 0]]
  /\ structures = <<[model |-> n + 1, pos |-> FirstStructurePos, id |-> "building-type-a"]>>
  /\ scene = 1..(n + 1)
  /\ nextHandle = n + 2
  /\ timers = {}
  /\ currentTask = NoTask
  /\ nextTaskId = 1
  /\ game = [score |-> 0, level |-> 1, player |-> <<0, 0>>]
  /\ pending = <<>>
  /\ errors = 0
  /\ calls = 0
  /\ last = NoObs
  /\ lastInference = [k \in (IF n = 0 THEN {} ELSE {CacheKey(1, 0, 1)}) |-> 0]
  /\ evictedKeys = {}
  /\ loader = LoaderDone
  /\ client = NoClient
  /\ history = NoHistory
  /\ menuManager = NoMenuManager
  /\ modelsLoader = NoLoad

\* the streams of sampled points: a free point then one at distance exactly 20,
\* a free point then one too close to it then one at distance exactly 20, and
\* two that start next to the structure
PointStreams == {<<<<0, 0>>, <<12, 16>>>>, <<<<0, 0>>, <<11, 16>>, <<12, 16>>>>,
                 <<<<100, 110>>, <<100, 110>>>>, <<<<100, 110>>, <<0, 0>>>>}

IdStreams == {<<1>>, <<3, 2>>}

InitCrowd(n) == InitCrowdAt(n, EnemyPositions(n, FALSE))

SpawnOutputs == {<<7, 24>>, <<3, 30>>}

\* type a at <<0, 0>>; type c (no model loaded) next to the first structure
\* and away from it; type d, which cityData does not list
StructOutputs == {<<0, 50, 50>>, <<66, 70, 72>>, <<66, 10, 10>>, <<100, 50, 50>>}

\* Game.calculateMapDensity, in 200ths
MapDensity == Min(Len(structures), 200)

\* the sword_slash ability, which the player uses while a call is suspended:
\* createAreaEffect(3, 1.5 * power), for a character of power 40
SlashRadius == 3
CharacterPower == 40
SlashDamage == (3 * CharacterPower) \div 2

InitSpawn == InitCrowd(MAX_ENEMIES - 2)

NextSpawn ==
  \/ \E out \in SpawnOutputs :
       /\ calls < MaxSpawnCalls
       /\ Len(pending) < MaxInFlight
       /\ SpawnEnemy(game.level, Len(enemies), MapDensity, out, FALSE)
  \/ /\ calls < MaxSpawnCalls
     /\ Len(pending) < MaxInFlight
     /\ SpawnEnemy(game.level, Len(enemies), MapDensity, <<3, 30>>, TRUE)
  \/ \E p \in 1..MaxInFlight, ids \in IdStreams, pts \in PointStreams :
       SpawnEnemyResume(p, FALSE, ids, pts, None)
  \/ \E p \in 1..MaxInFlight, failAt \in 0..1 :
       SpawnEnemyResume(p, FALSE, <<1>>, <<<<0, 0>>, <<12, 16>>>>, failAt)
  \/ \E p \in 1..MaxInFlight :
       SpawnEnemyResume(p, TRUE, <<1>>, <<<<0, 0>>>>, None)
  \/ \E out \in StructOutputs :
       /\ calls < MaxSpawnCalls
       /\ Len(pending) < MaxInFlight
       /\ AddStructure(game.level, Len(structures), "suburb", out, FALSE)
  \/ /\ calls < MaxSpawnCalls
     /\ Len(pending) < MaxInFlight
     /\ AddStructure(game.level, Len(structures), "suburb", <<0, 50, 50>>, TRUE)
  \/ \E p \in 1..MaxInFlight, dataFails \in BOOLEAN, cloneFails \in BOOLEAN :
       AddStructureResume(p, dataFails, cloneFails)
  \/ /\ pending # <<>>
     /\ calls < MaxSpawnCalls
     /\ CreateAreaEffect(SlashRadius, SlashDamage)

SpecSpawn == InitSpawn /\ [][NextSpawn]_vars

(***************************************************************************)
(* Claims about spawning                                                   *)
(***************************************************************************)
\* C4: a spawnEnemy call made while the enemy list holds MAX_ENEMIES enemies
\* changes nothing: the enemy list, the scene, the cache, the counters, the
\* suspended calls and the error reports stay as they are and no inference is
\* recorded.
C4_AtCapNoOp ==
  [][(last'.op = "spawnEnemy" /\ Len(enemies) >= MAX_ENEMIES)
       => /\ UNCHANGED <<enemies, scene, modelCache, metrics, structures, timers,
                         pending, errors, lastInference, nextHandle>>
          /\ last'.outcome = "skipped"]_vars

\* C4 witness: a spawnEnemy call was made with the enemy list at the cap
C4_Witness ==
  /\ last.op = "spawnEnemy"
  /\ last.enemiesBefore = MAX_ENEMIES
  /\ Len(enemies) = MAX_ENEMIES
  /\ last.outcome = "skipped"

\* C5: the enemy list never holds more than MAX_ENEMIES enemies
C5_CapHolds == Len(enemies) <= MAX_ENEMIES

\* C5 witness: a resumed call whose prediction asked for more enemies than it
\* created stopped at the cap while another call, which had passed the cap
\* check as well, is still suspended
C5_Witness ==
  /\ last.op = "spawnEnemyResume"
  /\ Len(enemies) = MAX_ENEMIES
  /\ Len(last.created) >= 1
  /\ Len(last.created) < last.n
  /\ \E p \in DOMAIN pending : pending[p].op = "spawnEnemy"

\* the enemies and structures that were in the lists when the enemy at
\* index j of the enemy list was placed are at distance >= MIN_DISTANCE
SeparatedAt(j) ==
  /\ \A i \in 1..(j - 1) : ~CloserThan(enemies[j].pos, enemies[i].pos, MIN_DISTANCE)
  /\ \A i \in DOMAIN structures : ~CloserThan(enemies[j].pos, structures[i].pos, MIN_DISTANCE)

\* C7: every enemy a spawnEnemy call placed at a sampled position is at
\* distance >= 20 from every enemy that was in the list before it (those
\* created earlier in the same call included) and from every structure
C7_SampledIsSeparated ==
  last.op = "spawnEnemyResume" =>
    \A c \in DOMAIN last.created :
      last.created[c].sampled => SeparatedAt(last.created[c].index)

\* C7 witness: a call placed two enemies at sampled positions, the second
\* after a rejected sample, with a structure and other enemies on the map
C7_Witness ==
  /\ last.op = "spawnEnemyResume"
  /\ Len(last.created) >= 2
  /\ last.created[1].sampled
  /\ last.created[2].sampled
  /\ last.created[2].draws > 1
  /\ Len(structures) >= 1
  /\ last.enemiesBefore >= 1

\* the square from which findSafeSpawnPosition samples, which keepInBounds
\* keeps the enemies in
InPlayArea(position) ==
  /\ 0 - BOUNDS <= position[1] /\ position[1] <= BOUNDS
  /\ 0 - BOUNDS <= position[2] /\ position[2] <= BOUNDS

\* C8 as stated: the position returned after MAX_ATTEMPTS rejected samples is
\* one fixed point, and that point lies outside the sampled square
C8_FallbackOutside ==
  last.op = "spawnEnemyResume" =>
    \A c \in DOMAIN last.created :
      ~last.created[c].sampled =>
        /\ enemies[last.created[c].index].pos = FallbackPosition
        /\ ~InPlayArea(enemies[last.created[c].index].pos)

\* C9: findSafeSpawnPosition returns a position after at least one and at
\* most MAX_ATTEMPTS samples; when every sample was rejected it has drawn
\* exactly MAX_ATTEMPTS, the enemy is created all the same and the call
\* reports no error
C9_PlannerBounded ==
  last.op = "spawnEnemyResume" =>
    /\ \A c \in DOMAIN last.created :
         /\ last.created[c].draws \in 1..MAX_ATTEMPTS
         /\ enemies[last.created[c].index].pos \in Int \X Int
         /\ ~last.created[c].sampled => last.created[c].draws = MAX_ATTEMPTS
    /\ last.outcome = "done" => errors = last.errorsBefore

\* C9 witness: every sample of one planner call was rejected and the enemy
\* was created at the position the planner returned
C9_Witness ==
  /\ last.op = "spawnEnemyResume"
  /\ last.outcome = "done"
  /\ \E c \in DOMAIN last.created :
       /\ ~last.created[c].sampled
       /\ last.created[c].draws = MAX_ATTEMPTS

\* C10 as stated: a spawnEnemy or addStructure call that fails reports the
\* failure once and has created no entity
C10_FailureCreatesNothing ==
  (last.op \in {"spawnEnemy", "spawnEnemyResume", "addStructure", "addStructureResume"}
     /\ last.outcome = "error")
    => /\ errors = last.errorsBefore + 1
       /\ Len(enemies) = last.enemiesBefore
       /\ Len(structures) = last.structuresBefore

MaxLoadCalls == 3

\* the director as its constructor leaves it, on an empty map
InitConstructed ==
  /\ now = 0
  /\ pruneDue = PRUNE_INTERVAL
  /\ enemyModel = FALSE
  /\ structureModel = FALSE
  /\ modelCache = <<>>
  /\ metrics = [predictions |-> 0, cacheHits |-> 0, cacheMisses |-> 0]
  /\ enemies = <<>>
  /\ structures = <<>>
  /\ scene = {}
  /\ nextHandle = 1
  /\ timers = {}
  /\ currentTask = NoTask
  /\ nextTaskId = 1
  /\ game = [score |-> 0, level |-> 1, player |-> <<0, 0>>]
  /\ pending = <<>>
  /\ errors = 0
  /\ calls = 0
  /\ last = NoObs
  /\ lastInference = [k \in {} |-> None]
  /\ evictedKeys = {}
  /\ loader = LoaderStart
  /\ client = NoClient
  /\ history = NoHistory
  /\ menuManager = NoMenuManager
  /\ modelsLoader = NoLoad

NextLoad ==
  \/ \E ok \in BOOLEAN : LoadModelsReady(ok)
  \/ \E enemyOk \in BOOLEAN, structureOk \in BOOLEAN : LoadModelsLoaded(enemyOk, structureOk)
  \/ \E ok \in BOOLEAN : LoadModelsTrained(ok)
  \/ \E enemyOk \in BOOLEAN, structureOk \in BOOLEAN : LoadModelsReloaded(enemyOk, structureOk)
  \/ /\ calls < MaxLoadCalls
     /\ pending = <<>>
     /\ SpawnEnemy(game.level, Len(enemies), MapDensity, <<7, 14>>, FALSE)
  \/ SpawnEnemyResume(1, FALSE, <<1>>, <<<<0, 0>>>>, None)
  \/ /\ calls < MaxLoadCalls
     /\ pending = <<>>
     /\ AddStructure(game.level, Len(structures), "suburb", <<0, 60, 60>>, FALSE)
  \/ AddStructureResume(1, FALSE, FALSE)
  \/ /\ calls < MaxLoadCalls
     /\ Dispose

SpecLoad == InitConstructed /\ [][NextLoad]_vars

InitialLoadFailed == "failed" \in {loader.enemyFirst, loader.structureFirst}

MaxArena == 5

\* the outcomes of the chance rolls of spawnEvent: no event passes, the
\* health kit passes, the health kit and the speed boost pass
EventRolls == {{}, {"health_kit"}, {"health_kit", "speed_boost"}}

\* the radii and damages the abilities pass to createAreaEffect
AreaRadii == {1, 2, 3}
AreaDamages == {25, 50}

InitTask == \E n \in 3..MaxArena : InitCrowdAt(n, EnemyPositions(n, TRUE))

NextTask ==
  \/ \E rolls \in EventRolls : GameLoopTask(rolls)
  \/ \E radius \in AreaRadii, damage \in AreaDamages : CreateAreaEffect(radius, damage)

SpecTask == InitTask /\ [][NextTask]_vars

\* C6 as stated: the progress of the current task stays within 0..target
C6_ProgressWithinTarget ==
  currentTask # NoTask =>
    /\ 0 <= currentTask.progress
    /\ currentTask.progress <= currentTask.target

(***************************************************************************)
(* The maintenance specification: the maintenance timer on a clock that    *)
(* runs past two timer periods, with a spawnEnemy call in between         *)
(***************************************************************************)
MaxMaintCalls == 2

NextMaint ==
  \/ \E key \in TestKeys :
       /\ calls < MaxMaintCalls
       /\ pending = <<>>
       /\ SpawnEnemy(key[1], key[2], key[3], <<3, 0>>, FALSE)
  \/ SpawnEnemyResume(1, FALSE, <<1>>, <<<<0, 0>>>>, None)
  \/ PrunePass
  \/ \E t \in Instants : Tick(t)

SpecMaint == InitCache /\ [][NextMaint]_vars

\* C16 as stated: right after a maintenance pass no enemy with health <= 0
\* is in the list and every cache entry is one spawnEnemy would serve
C16_PruneLeavesNothingExpired ==
  last.op = "prune" =>
    /\ \A i \in DOMAIN enemies : enemies[i].health > 0
    /\ \A i \in DOMAIN modelCache : IsLive(modelCache[i], now)

\* C17: a maintenance pass that runs directly after another one, with no
\* time elapsed and no other operation in between, removes no cache entry
\* and no enemy
C17_SecondPassRemovesNothing ==
  (last.op = "prune" /\ last.after = "prune") => last.removed = 0

\* C17 witness: a pass ran directly after a pass that had removed entries
C17_Witness ==
  /\ last.op = "prune"
  /\ last.after = "prune"
  /\ last.prevRemoved >= 2
  /\ last.removed = 0

(***************************************************************************)
(* The combat specification: the Game handlers that damage enemies, the    *)
(* game loop, the maintenance timer and dispose, with enemies that have    *)
(* closed in on the player                                                 *)
(***************************************************************************)
MaxDisposals == 1

\* the damage of the equipped kit and its effects
ShotDamages == {50}
ShotEffects == {"none", "area"}

NextGame ==
  \/ \E rolls \in EventRolls : GameLoopTask(rolls)
  \/ CreateAreaEffect(SlashRadius, SlashDamage)
  \/ \E target \in 1..MaxArena, damage \in ShotDamages, effect \in ShotEffects :
       Shoot(target, damage, effect)
  \/ PrunePass
  \/ /\ pruneDue <= MaxTime
     /\ Tick(pruneDue)
  \/ /\ calls < MaxDisposals
     /\ Dispose

SpecGame == InitTask /\ [][NextGame]_vars

\* C14 as stated: right after dispose the scene holds no object the
\* director had added to it (the scene of the model holds no other objects
\* than those), and the enemy list, the structure list and the cache are
\* empty
C14_DisposeClearsScene ==
  last.op = "dispose" =>
    /\ scene = {}
    /\ enemies = <<>>
    /\ structures = <<>>
    /\ modelCache = <<>>

\* C15 as stated: an enemy whose health a shot has brought to exactly 0 is
\* still in the enemy list after the shot
C15_DeadStaysUntilPrune ==
  (last.op = "shoot" /\ last.health = 0)
    => \E i \in DOMAIN enemies : enemies[i].model = last.handle

\* C15, amended: the Game handler that brings the health of an enemy to 0
\* or below removes it from the list in the same step, so every enemy in
\* the list has health > 0 and a maintenance pass finds no enemy to remove
C15_DeadRemovedAtOnce ==
  /\ \A i \in DOMAIN enemies : enemies[i].health > 0
  /\ (last.op = "shoot" /\ last.outcome = "killed") =>
       /\ \A i \in DOMAIN enemies : enemies[i].model # last.handle
       /\ last.handle \notin scene
  /\ last.op = "prune" => Len(enemies) = last.enemiesBefore

\* C15 witness: a shot brought the health of an enemy to exactly 0
C15_Witness ==
  /\ last.op = "shoot"
  /\ last.outcome = "killed"
  /\ last.health = 0
  /\ Len(enemies) < last.enemiesBefore

(***************************************************************************)
(* The placement specification: spawnEnemy and addStructure called on an   *)
(* empty map with chosen levels and predictor outputs                      *)
(***************************************************************************)
MaxPlaceCalls == 4

\* the levels of the calls and the mapDensity 0.2 (40 of 200 buildings)
PlaceLevels == {1, 3}
PlaceDensity == 40

\* [0.7, 2.4], and [0.5, 2.5] on both rounding and type boundaries
PlaceOutputs == {<<7, 24>>, <<5, 25>>}

\* [0.66, 0.5, 0.5]; type a at <<0, 0>>, at <<15, 0>> and at <<20, 0>>;
\* type b at <<20, 0>>; type d in a corner of the map
PlaceStructOutputs ==
  {<<66, 50, 50>>, <<0, 50, 50>>, <<0, 53, 50>>, <<0, 54, 50>>, <<33, 54, 50>>,
   <<100, 100, 0>>}

NextPlace ==
  \/ \E level \in PlaceLevels, out \in PlaceOutputs :
       /\ calls < MaxPlaceCalls
       /\ pending = <<>>
       /\ SpawnEnemy(level, Len(enemies), PlaceDensity, out, FALSE)
  \/ \E ids \in IdStreams : SpawnEnemyResume(1, FALSE, ids, <<<<0, 0>>, <<12, 16>>>>, None)
  \/ \E out \in PlaceStructOutputs :
       /\ calls < MaxPlaceCalls
       /\ pending = <<>>
       /\ AddStructure(1, Len(structures), "suburb", out, FALSE)
  \/ AddStructureResume(1, FALSE, FALSE)

SpecPlace == InitLoaded /\ [][NextPlace]_vars

\* C18: a spawnEnemy call whose lookups all found a model and which had room
\* under the cap for round(c) enemies created exactly round(c) enemies (the
\* integer k with k - 0.5 <= c < k + 0.5), each with health 50 * level and
\* with (fast, 80, 15) when t > 0.5 and (basic, 50, 20) otherwise; at level 3
\* the output [0.7, 2.4] gives two fast enemies of speed 80, damage 15 and
\* health 150
C18_SpawnCountAndStats ==
  (last.op = "spawnEnemyResume" /\ last.outcome = "done" /\ last.missed = 0) =>
    LET t == last.prediction[1]
        c == last.prediction[2]
        k == CHOOSE k \in 0..MAX_ENEMIES : 10 * k - 5 <= c /\ c < 10 * k + 5
    IN /\ last.enemiesBefore + k <= MAX_ENEMIES =>
            /\ Len(last.created) = k
            /\ Len(enemies) = last.enemiesBefore + k
            /\ \A j \in DOMAIN last.created :
                 LET e == enemies[last.created[j].index]
                 IN /\ e.health = 50 * last.level
                    /\ <<e.type, e.speed, e.damage>> =
                         (IF t > 5 THEN <<"fast", 80, 15>> ELSE <<"basic", 50, 20>>)
       /\ (last.level = 3 /\ last.prediction = <<7, 24>>
             /\ last.enemiesBefore + 2 <= MAX_ENEMIES) =>
            /\ Len(last.created) = 2
            /\ \A j \in DOMAIN last.created :
                 LET e == enemies[last.created[j].index]
                 IN <<e.type, e.speed, e.damage, e.health>> = <<"fast", 80, 15, 150>>

\* C18 witness: the call of scenario A has created its two enemies
C18_Witness ==
  /\ last.op = "spawnEnemyResume"
  /\ last.outcome = "done"
  /\ last.level = 3
  /\ last.prediction = <<7, 24>>
  /\ last.missed = 0
  /\ Len(last.created) = 2

\* C19: for an output [b, xn, zn] addStructure selects the catalog index
\* round(3 * b) (the integer i with i - 0.5 <= 3 * b < i + 0.5), which is one
\* of 0..3, and the position ((100 * xn - 50) * 5, (100 * zn - 50) * 5), which
\* lies in the play area; for [0.66, 0.5, 0.5] they are index 2 and <<0, 0>>
C19_Denormalization ==
  (last.op = "addStructureResume" /\ last.index # None) =>
    LET b == last.prediction[1]
        xn == last.prediction[2]
        zn == last.prediction[3]
    IN /\ last.index \in 0..3
       /\ 100 * last.index - 50 <= 3 * b
       /\ 3 * b < 100 * last.index + 50
       /\ last.position = <<(xn - 50) * 5, (zn - 50) * 5>>
       /\ InPlayArea(last.position)
       /\ last.prediction = <<66, 50, 50>> =>
            (last.index = 2 /\ last.position = <<0, 0>>)

\* C19 witness: the call of scenario B has selected its building and position
C19_Witness ==
  /\ last.op = "addStructureResume"
  /\ last.prediction = <<66, 50, 50>>
  /\ last.index = 2
  /\ last.position = <<0, 0>>

\* the distance checkCollision demands for a building: 3 * max(width, depth) + 10
FootprintDistance(id) == 3 * Max(BuildingSize(id).width, BuildingSize(id).depth) + 10

\* C20: addStructure changes the structure list only by appending a
\* structure at distance >= 3 * max(width, depth) + 10 from every structure
\* that was in the list; a call whose position fails that test changes
\* neither the structure list nor the scene, reports no error and starts no
\* other placement
C20_CollisionDropsPlacement ==
  [][last'.op = "addStructureResume" =>
       /\ structures' # structures =>
            /\ last'.outcome = "done"
            /\ Len(structures') = Len(structures) + 1
            /\ \A i \in DOMAIN structures :
                 /\ structures'[i] = structures[i]
                 /\ ~CloserThan(structures'[Len(structures')].pos, structures[i].pos,
                                FootprintDistance(structures'[Len(structures')].id))
       /\ last'.outcome = "collision" =>
            /\ UNCHANGED <<structures, scene, nextHandle, errors, enemies>>
            /\ Len(pending') = Len(pending) - 1
            /\ \E i \in DOMAIN structures :
                 CloserThan(last'.position, structures[i].pos,
                            FootprintDistance(BuildingIds[last'.index + 1]))]_vars

\* C20 witness: a placement was dropped because it was too close to a
\* structure placed before
C20_Witness ==
  /\ last.op = "addStructureResume"
  /\ last.outcome = "collision"
  /\ last.structuresBefore >= 1
  /\ Len(structures) = last.structuresBefore

(***************************************************************************)
(* The task specification: the task methods of the director called in any  *)
(* order and at any time, with the maintenance timer and dispose           *)
(***************************************************************************)
MaxTaskCalls == 5

\* the levels the tasks are generated for
TaskLevels == {1, 2, 4}

NextDirector ==
  \/ \E level \in TaskLevels :
       /\ calls < MaxTaskCalls
       /\ GenerateDynamicTask(level)
  \/ \E increment \in BOOLEAN :
       /\ calls < MaxTaskCalls
       /\ UpdateTaskProgressCall(increment)
  \/ PrunePass
  \/ \E t \in Instants :
       /\ t <= MaxTime
       /\ Tick(t)
  \/ /\ calls < MaxTaskCalls
     /\ Dispose

SpecDirector == InitLoaded /\ [][NextDirector]_vars

\* C21: a generateDynamicTask(level) call installs, whatever the current task
\* was, a task with target 2 * level, reward 50 * level, progress 0 and no
\* completion time, whose id is greater than the id of every task generated
\* before; at level 4 the target is 8 and the reward 200.
C21_GenerateInstallsFreshTask ==
  last.op = "generateDynamicTask"
    => LET ids == history.taskIds
       IN /\ ids # <<>>
          /\ currentTask = [id |-> ids[Len(ids)], target |-> 2 * last.level,
                            progress |-> 0, reward |-> 50 * last.level,
                            completedAt |-> None]
          /\ \A j \in 1..(Len(ids) - 1) : ids[j] < currentTask.id
          /\ last.level = 4 => (currentTask.target = 8 /\ currentTask.reward = 200)

\* a level-4 task has replaced a completed task
C21_Witness ==
  /\ last.op = "generateDynamicTask"
  /\ last.level = 4
  /\ last.taskBefore.completedAt # None
  /\ Len(history.taskIds) >= 2

\* C22: updateTaskProgress(true) adds one to the progress when the current
\* task is not completed; updateTaskProgress(false), a call without a current
\* task and a call on a completed task change nothing of the task.
C22_ProgressOnlyWhenActive ==
  last.op = "updateTaskProgress"
    => IF /\ last.increment
          /\ last.taskBefore # NoTask
          /\ last.taskBefore.completedAt = None
       THEN /\ currentTask.progress = last.taskBefore.progress + 1
            /\ currentTask.id = last.taskBefore.id
       ELSE currentTask = last.taskBefore

\* C23: once a task has its completion time no step changes it while the
\* task is current, and no step makes the current task none.
C23_CompletionStampedOnce ==
  [][/\ (currentTask # NoTask) => (currentTask' # NoTask)
     /\ (currentTask.completedAt # None /\ currentTask'.id = currentTask.id)
          => currentTask'.completedAt = currentTask.completedAt]_vars

(***************************************************************************)
(* The identity specification: spawnEnemy calls of different frames of the *)
(* game loop (the clock has advanced between two calls), up to two of them *)
(* suspended at their await at a time, resumed at any later moment         *)
(***************************************************************************)
MaxIdCalls == 4

\* [0.3, 1.0] and [0.7, 2.4]
IdOutputs == {<<3, 10>>, <<7, 24>>}

NextIds ==
  \/ \E out \in IdOutputs :
       /\ calls < MaxIdCalls
       /\ Len(pending) < MaxInFlight
       /\ last.op \in {"init", "tick"}
       /\ SpawnEnemy(game.level, Len(enemies), 0, out, FALSE)
  \/ \E p \in 1..MaxInFlight, ids \in IdStreams, pts \in PointStreams :
       SpawnEnemyResume(p, FALSE, ids, pts, None)
  \/ \E t \in Instants :
       /\ t <= MaxTime
       /\ Tick(t)

SpecIds == InitLoaded /\ [][NextIds]_vars

\* C24: no two enemies of the live list have the same id.
C24_UniqueIds ==
  \A i \in DOMAIN enemies, j \in DOMAIN enemies :
     i # j => enemies[i].id # enemies[j].id

(***************************************************************************)
(* A claim about the planner on an empty map, checked under SpecPlace      *)
(* (last.position is the first point the call samples)                     *)
(***************************************************************************)
\* C28: with no live enemy and no structure, the first enemy a spawnEnemy
\* call creates is put at the first point sampled: the planner draws one
\* sample and does not use the fallback position.
C28_EmptyMapFirstSample ==
  (/\ last.op = "spawnEnemyResume"
   /\ last.enemiesBefore = 0
   /\ last.structuresBefore = 0
   /\ last.created # <<>>)
    => /\ last.created[1].sampled
       /\ last.created[1].draws = 1
       /\ enemies[last.created[1].index].pos = last.position

\* a call has created its first enemy on an empty map
C28_Witness ==
  /\ last.op = "spawnEnemyResume"
  /\ last.enemiesBefore = 0
  /\ last.structuresBefore = 0
  /\ Len(last.created) >= 2
  /\ enemies[1].pos # FallbackPosition

(***************************************************************************)
(* The accessor specification: a caller that keeps and changes what        *)
(* getEnemies and getMetrics return, while the director spawns, runs its   *)
(* maintenance pass and is disposed                                        *)
(***************************************************************************)
MaxClientCalls == 4
MaxHeld == 3

\* the value the caller writes into its snapshot
EditedValues == {7}

InitClient == InitCrowdAt(2, EnemyPositions(2, FALSE))

NextClient ==
  \/ /\ calls < MaxClientCalls
     /\ GetEnemies
  \/ \E i \in 1..MaxHeld :
       /\ calls < MaxClientCalls
       /\ ClientRemove(i)
  \/ /\ calls < MaxClientCalls
     /\ GetMetrics
  \/ \E v \in EditedValues :
       /\ calls < MaxClientCalls
       /\ ClientEditSnapshot(v)
  \/ /\ calls < MaxClientCalls
     /\ pending = <<>>
     /\ SpawnEnemy(game.level, Len(enemies), MapDensity, <<3, 10>>, FALSE)
  \/ SpawnEnemyResume(1, FALSE, <<1>>, <<<<0, 0>>>>, None)
  \/ PrunePass
  \/ /\ pruneDue <= MaxTime
     /\ Tick(pruneDue)
  \/ /\ calls < MaxClientCalls
     /\ Dispose

SpecClient == InitClient /\ [][NextClient]_vars

\* C26 as stated: an enemy the caller removes from a list it got from
\* getEnemies(), however long ago, is no element of the director's list
C26_RemovalReachesDirector ==
  last.op = "clientRemove"
    => \A k \in DOMAIN enemies : enemies[k].model # last.handle

\* C26: an enemy the caller removes from a list it got from getEnemies()
\* after the latest maintenance pass and the latest dispose is removed from
\* the director's list, which gets one element shorter; a removal from a
\* list got before them leaves the director's list as it is.
C26_FreshRemovalReachesDirector ==
  last.op = "clientRemove"
    => IF last.outcome = "fresh"
       THEN /\ \A k \in DOMAIN enemies : enemies[k].model # last.handle
            /\ Len(enemies) = last.enemiesBefore - 1
       ELSE Len(enemies) = last.enemiesBefore

\* the caller has removed an enemy through a list it got after a
\* maintenance pass
C26_Witness ==
  /\ last.op = "clientRemove"
  /\ last.outcome = "fresh"
  /\ pruneDue > PRUNE_INTERVAL
  /\ last.enemiesBefore >= 2

\* C27: getMetrics hands out the values the counters have; a change the
\* caller makes to the snapshot it holds changes no counter of the director
\* (so no later snapshot either), and the snapshot keeps its values through
\* every step that is not a step of the caller.
C27_SnapshotIsCopy ==
  [][/\ (last'.op = "getMetrics") => (HeldSnapshot' = metrics /\ metrics' = metrics)
     /\ (last'.op = "clientEdit") => (metrics' = metrics)
     /\ (client.snapshot.held /\ last'.op \notin {"getMetrics", "clientEdit"})
          => (HeldSnapshot' = HeldSnapshot)]_vars

\* the director has counted a call after the caller took and changed its
\* snapshot
C27_Witness ==
  /\ client.snapshot.held
  /\ client.snapshot.value.predictions \in EditedValues
  /\ last.op = "spawnEnemy"
  /\ last.outcome \in {"hit", "miss"}
  /\ metrics.predictions \notin EditedValues
  /\ HeldSnapshot # metrics

(***************************************************************************)
(* The frame specification: the spawnEnemy and addStructure attempts of    *)
(* the frames of Game.gameLoop, the maintenance timer and the clock, from  *)
(* the moment the predictors are loaded                                    *)
(***************************************************************************)
MaxFrameCalls == 3

NextFrame ==
  \/ \E out \in IdOutputs :
       /\ calls < MaxFrameCalls
       /\ pending = <<>>
       /\ SpawnEnemy(game.level, Len(enemies), 0, out, FALSE)
  \/ SpawnEnemyResume(1, FALSE, <<1>>, <<<<0, 0>>, <<12, 16>>>>, None)
  \/ /\ calls < MaxFrameCalls
     /\ pending = <<>>
     /\ AddStructure(game.level, Len(structures), "suburb", <<0, 60, 60>>, FALSE)
  \/ AddStructureResume(1, FALSE, FALSE)
  \/ PrunePass
  \/ \E t \in Instants :
       /\ t <= MaxTime
       /\ Tick(t)

SpecFrame == InitLoaded /\ [][NextFrame]_vars

\* C29 (what it requires of every attempt): when Game.gameLoop makes a
\* spawnEnemy or addStructure attempt, a maintenance pass has run before it
\* (pruneDue has left its first value PRUNE_INTERVAL: only a pass moves it).
C29_PruneBeforeAttempt ==
  last.op \in {"spawnEnemy", "addStructure"} => pruneDue > PRUNE_INTERVAL

(***************************************************************************)
(* A claim about dispose during loadModels, checked under SpecLoad         *)
(***************************************************************************)
\* C30: when dispose was called while loadModels was suspended at one of
\* its awaits, then once loadModels has returned the director holds no
\* predictor, and a spawnEnemy or addStructure call returns at its guard.
C30_DisposedStaysUnloaded ==
  (/\ history.disposedIn \in {"ready", "loading", "training", "reloading"}
   /\ loader.phase \in {"done", "failed"})
    => /\ ~enemyModel
       /\ ~structureModel
       /\ last.op \in {"spawnEnemy", "addStructure"} => last.outcome = "skipped"

MaxZigzagCalls == 4

\* [0.7, 1.0]: one fast enemy
ZigzagOutputs == {<<7, 10>>}

\* the points sampled: one near the east border, then one 40 north of it
ZigzagPoints == <<<<100, 0>>, <<100, 40>>>>

NextZigzag ==
  \/ \E out \in ZigzagOutputs :
       /\ calls < MaxZigzagCalls
       /\ Len(pending) < MaxInFlight
       /\ last.op \in {"init", "tick"}
       /\ SpawnEnemy(game.level, Len(enemies), 0, out, FALSE)
  \/ \E p \in 1..MaxInFlight : SpawnEnemyResume(p, FALSE, <<1>>, ZigzagPoints, None)
  \/ \E timer \in timers : ZigzagTick(timer)
  \/ \E target \in 1..MaxInFlight, damage \in ShotDamages : Shoot(target, damage, "none")
  \/ PrunePass
  \/ \E t \in Instants :
       /\ t % PRUNE_INTERVAL = 0
       /\ Tick(t)
  \/ /\ calls < MaxZigzagCalls
     /\ Dispose

SpecZigzag == InitLoaded /\ [][NextZigzag]_vars

C38_OrphanTimerCancels ==
  (last.op = "zigzag" /\ ~last.ownerLive) => last.outcome = "cancelled"

(***************************************************************************)
(* Claims about dispose and about the tensors of suspended calls           *)
(***************************************************************************)
\* C33: once dispose has been called on a director whose loadModels had
\* returned, the enemy list and the structure list are empty and the scene
\* holds nothing the director added.
C33_DisposedStaysEmpty ==
  history.disposedIn \in {"done", "failed"}
    => /\ enemies = <<>>
       /\ structures = <<>>
       /\ scene = {}

\* C34: no spawnEnemy call is suspended at the await on the data of a
\* prediction tensor on which dispose() has been called.
C34_AwaitedTensorNotReleased ==
  \A p \in DOMAIN pending :
     pending[p].op = "spawnEnemy" => pending[p].tensor \notin history.released

(***************************************************************************)
(* Claims about the kills of the game, checked under SpecGame, where the   *)
(* enemies are the objects 1..n and the one building is the object n + 1   *)
(***************************************************************************)
\* the enemies of the list es that are no longer in the list es2
GoneFrom(es, es2) ==
  {i \in DOMAIN es : \A k \in DOMAIN es2 : es2[k].model # es[i].model}

\* C35: as long as the director is not disposed, the model of an enemy is
\* in the scene exactly when the enemy is in the live list.
C35_SceneMatchesList ==
  structures # <<>>
    => \A h \in 1..(structures[1].model - 1) :
          (h \in scene) <=> (\E i \in DOMAIN enemies : enemies[i].model = h)

\* C36: a shot or an area effect removes from the live list only enemies its
\* damage has reached (the enemy that was shot, the enemies within the
\* radius of the effect around the player), and for every enemy it removes
\* it adds the kill bonus of 10 once and one to the progress of the task.
C36_EachDeathCountedOnce ==
  [][last'.op \in {"shoot", "createAreaEffect"}
       => LET radius == IF last'.op = "shoot" THEN 1 ELSE SlashRadius
              gone == GoneFrom(enemies, enemies')
              dead == {i \in gone : \/ enemies[i].model = last'.handle
                                    \/ CloserThan(enemies[i].pos, game.player, radius)}
              replaced == currentTask'.id # currentTask.id
          IN /\ gone = dead
             /\ game'.score - game.score
                  = 10 * Cardinality(dead) + (IF replaced THEN currentTask.reward ELSE 0)
             /\ (~replaced /\ currentTask # NoTask)
                  => currentTask'.progress = currentTask.progress + Cardinality(dead)]_vars

\* C37: every enemy a spawnEnemy call has added, at a sampled position or at
\* the fallback position, is at distance >= 20 from every enemy that was in
\* the list before it, so that no two of them stand at the same position.
C37_EveryEnemySeparated ==
  last.op = "spawnEnemyResume" =>
    \A c \in DOMAIN last.created :
      \A i \in 1..(last.created[c].index - 1) :
        ~CloserThan(enemies[last.created[c].index].pos, enemies[i].pos, MIN_DISTANCE)

(***************************************************************************)
(* The menus: the constructor's initializeMenus and the showMenu calls     *)
(***************************************************************************)
\* the page marks none of the menus it has hidden, all of them, or all but
\* the main menu
PageHidden(present) == {{}, present, present \ {"main"}}

NextMenu ==
  \/ \E characters \in {0, 2}, kits \in {0, 2}, present \in SUBSET MenuKeys,
        characterGrid \in BOOLEAN, kitGrid \in BOOLEAN :
       \E pageHidden \in PageHidden(present) :
         InitializeMenus(characters, kits, present, pageHidden, characterGrid, kitGrid)
  \/ \E menuId \in MenuIds : ShowMenu(menuId)

SpecMenu == InitLoaded /\ [][NextMenu]_vars

\* C39: every call of showMenu returns, whatever the menu id and the set of
\* registered menus: the call initializeMenus makes when the character or
\* kit data is empty included, its recursion ends within the call stack.
C39_ShowMenuReturns ==
  last.op \in {"showMenu", "initializeMenus"} => last.outcome = "returned"

(***************************************************************************)
(* One model path loaded with retries                                      *)
(***************************************************************************)
NextRetry ==
  \/ \E modelPath \in ModelPaths : LoadModelWithRetry(modelPath)
  \/ \E outcome \in {"loaded"} \cup LoadErrors : LoadAttempt(outcome)
  \/ RetryTimeout

SpecRetry == InitLoaded /\ [][NextRetry]_vars

\* C40: a loadModelWithRetry call makes at most MAX_RETRIES + 1 attempts; no
\* attempt follows one that succeeded, and the call resolves with the model
\* of its path exactly then; it rejects only after MAX_RETRIES + 1 failed
\* attempts, with the error of the last of them.
C40_RetryBounded ==
  LET a == modelsLoader.attempts
  IN /\ Len(a) <= MAX_RETRIES + 1
     /\ \A i \in 1..(Len(a) - 1) : a[i] # "loaded"
     /\ modelsLoader.phase = "resolved"
          <=> (a # <<>> /\ a[Len(a)] = "loaded")
     /\ modelsLoader.phase = "resolved" => modelsLoader.result = modelsLoader.path
     /\ modelsLoader.phase = "rejected"
          => /\ Len(a) = MAX_RETRIES + 1
             /\ \A i \in DOMAIN a : a[i] \in LoadErrors
             /\ modelsLoader.result = a[MAX_RETRIES + 1]

\* C40 witness: a call was rejected after four failed attempts, the fourth
\* with another error than the third
C40_Witness ==
  /\ modelsLoader.phase = "rejected"
  /\ Len(modelsLoader.attempts) = MAX_RETRIES + 1
  /\ modelsLoader.attempts[MAX_RETRIES] # modelsLoader.attempts[MAX_RETRIES + 1]
  /\ modelsLoader.result = modelsLoader.attempts[MAX_RETRIES + 1]

====
